---------------------------- MODULE Spec2Model ----------------------------
(***************************************************************************)
(* The deal.II exception and assertion mechanism                           *)
(* (include/deal.II/base/exceptions.h): the check macros Assert,           *)
(* AssertThrow and AssertNothrow, the dispatchers issue_error_noreturn     *)
(* and issue_error_nothrow, and the process-wide abort flag with its two   *)
(* toggles.  One thread of a host program performs a bounded number of     *)
(* checks, interleaved with toggles of the flag; a failing check walks     *)
(* through its dispatcher statement by statement.                          *)
(***************************************************************************)
EXTENDS Naturals, Integers, Sequences, FiniteSets, TLC

VARIABLES
  pc,                        \* position of the program thread
  allow_abort_on_exception,  \* deal_II_exceptions::internals::allow_abort_on_exception
  debug,                     \* whether the build defines DEBUG
  check,                     \* the check being (or last) executed
  exc,                       \* the exception object e owned by the dispatcher
  thrown,                    \* the exception object in flight, if any
  deallog,                   \* what has been written to deallog
  outcome,                   \* how the last check ended
  n_checks,                  \* number of checks executed so far
  last_toggle,               \* history: the most recent toggle call
  disable_called,            \* history: disable_abort_on_exception was called
  additional_assert_output,  \* the string set by set_additional_assert_output
  show_stacktrace,           \* deal_II_exceptions::show_stacktrace
  buffer,                    \* the caller's buffer handed to set_additional_assert_output
  last_output_set,           \* history: the text of the most recent call of set_additional_assert_output
  caught,                    \* the exception object a handler of the caller holds
  what_returned,             \* history: the texts what() returned for caught
  cerr,                      \* what internals::abort printed to std::cerr
  arith                      \* the integer checks and the index exceptions

output_vars ==
  <<additional_assert_output, show_stacktrace, buffer, last_output_set>>

handler_vars == <<caught, what_returned>>

vars == <<pc, allow_abort_on_exception, debug, check, exc, thrown, deallog,
          outcome, n_checks, last_toggle, disable_called, output_vars,
          handler_vars, cerr, arith>>

---------------------------------------------------------------------------
(* Bounds of the model *)

MaxChecks == 2

MaxWhatCalls == 2

\* Number of bits of int and unsigned int
Width == 3

---------------------------------------------------------------------------
(* Values *)

\* enum class ExceptionHandling, and a value outside the enumeration
abort_or_throw_on_exception == "abort_or_throw_on_exception"
throw_on_exception == "throw_on_exception"
malformed_handling == "static_cast<ExceptionHandling>(2)"

ExceptionHandling == {abort_or_throw_on_exception, throw_on_exception}

HandlingValues == ExceptionHandling \cup {malformed_handling}

\* Some of the exception classes of namespace StandardExceptions
ExcInternalError == "ExcInternalError"
ExcDimensionMismatch == "ExcDimensionMismatch"
ExcMessage == "ExcMessage"
ExcNotImplemented == "ExcNotImplemented"

\* The null pointer passed in the place of a text; no text of a condition
\* or of an exception is this string
nullptr == "nullptr"

Kinds == {ExcInternalError, ExcDimensionMismatch, ExcMessage}

\* What a check site hands to the dispatcher besides the exception object:
\* __FILE__, __LINE__, __PRETTY_FUNCTION__ and #cond
CallSites ==
  { [file |-> "trace.cc", line |-> 45, function |-> "main",
     cond |-> "m.trace() == tr"],
    [file |-> "segment_data_out.h", line |-> 7, function |-> "add_datasets",
     cond |-> "dim1 == dim2"] }

\* The number of frames recorded for a failure at a check site: none for
\* the program of trace.cc, run where stack traces are not supported, two
\* for the site in add_datasets
n_stacktrace_frames_at(site) ==
  IF site.file = "trace.cc" THEN 0 ELSE 2

\* The strings a caller may hold in the buffer it hands to
\* set_additional_assert_output
Texts == {"host-a", "host-b"}

NoArith == [phase |-> "none"]

NoExc == [kind |-> "none"]

NoCheck ==
  [macro |-> "none", cond |-> TRUE, kind |-> "none",
   site |-> [file |-> "", line |-> 0, function |-> "", cond |-> ""],
   exc_name |-> "", on_host |-> TRUE, call |-> "none", handling |-> "none",
   evaluated |-> FALSE, frames |-> 0]

\* The default text of ExcInternalError
ExcInternalError_defaulttext ==
  "This exception -- which is used in many places in the library -- usually indicates that some condition which the author of the code thought must be satisfied at a certain point in an algorithm, is not fulfilled. An example would be that the first part of an algorithm sorts elements of an array in ascending order, and a second part of the algorithm later encounters an element that is not larger than the previous one.\n\nThere is usually not very much you can do if you encounter such an exception since it indicates an error in deal.II, not in your own program. Try to come up with the smallest possible program that still demonstrates the error and contact the deal.II mailing lists with it to obtain help."

\* The default text of ExcNotImplemented
ExcNotImplemented_defaulttext ==
  "You are trying to use functionality in deal.II that is currently not implemented. In many cases, this indicates that there simply didn't appear much of a need for it, or that the author of the original code did not have the time to implement a particular case. If you hit this exception, it is therefore worth the time to look into the code to find out whether you may be able to implement the missing functionality. If you do, please consider providing a patch to the deal.II development sources (see the deal.II website on how to contribute)."

\* What an object of the class prints as its explanation when it was
\* constructed without arguments: the default text of a class declared by
\* DeclExceptionMsg; for the other classes their name stands for the
\* output sequence of the class
defaulttext(kind) ==
  CASE kind = ExcInternalError -> ExcInternalError_defaulttext
    [] kind = ExcNotImplemented -> ExcNotImplemented_defaulttext
    [] OTHER -> kind

\* A freshly constructed exception object of the given class: the fields of
\* ExceptionBase are not set yet
ExceptionBase(kind) ==
  [kind |-> kind, file |-> "", line |-> 0, function |-> "", cond |-> "",
   exc_name |-> "", set_fields_calls |-> 0, n_stacktrace_frames |-> 0,
   what_str |-> <<>>, generate_calls |-> 0, arg |-> defaulttext(kind)]

\* e.set_fields(file, line, function, cond, exc_name); frames is the
\* number of frames the capture of the stack trace yields at this place
set_fields(e, file, line, function, cond, exc_name, frames) ==
  [e EXCEPT !.file = file, !.line = line, !.function = function,
            !.cond = cond, !.exc_name = exc_name,
            !.n_stacktrace_frames = frames,
            !.set_fields_calls = @ + 1]

\* The value the abort flag is defined with
allow_abort_on_exception_default == TRUE

---------------------------------------------------------------------------
(* The check macros: what a check expands to and, from the value of its    *)
(* condition, which dispatcher it calls.                                   *)

\* The expansion evaluated the condition, which held
NoCall == [call |-> "none", handling |-> "none", evaluated |-> TRUE]

\* The expansion of Assert and AssertNothrow without DEBUG: an empty
\* statement (cond and exc appear under decltype at most)
NotCompiled == [call |-> "none", handling |-> "none", evaluated |-> FALSE]

\* Assert as it would be with the handling of AssertThrow
AssertMacro_with_throw_on_exception(dbg, on_host, cond) ==
  IF dbg /\ ~cond
    THEN IF on_host
           THEN [call |-> "issue_error_noreturn",
                 handling |-> throw_on_exception, evaluated |-> TRUE]
           ELSE [call |-> "Kokkos::abort", handling |-> "none", evaluated |-> TRUE]
    ELSE NoCall

\* #define Assert(cond, exc)
AssertMacro(dbg, on_host, cond) ==
  IF ~dbg
    THEN NotCompiled
    ELSE IF on_host
      THEN IF ~cond
             THEN [call |-> "issue_error_noreturn",
                   handling |-> abort_or_throw_on_exception, evaluated |-> TRUE]
             ELSE NoCall
      ELSE IF ~cond
             THEN [call |-> "Kokkos::abort", handling |-> "none", evaluated |-> TRUE]
             ELSE NoCall

\* AssertNothrow as it would be with the test of the condition inverted
AssertNothrow_inverted(dbg, cond) ==
  IF dbg /\ cond
    THEN [call |-> "issue_error_nothrow", handling |-> "none", evaluated |-> TRUE]
    ELSE NoCall

\* AssertNothrow as it would be if it were compiled in every build
AssertNothrow_in_every_build(dbg, cond) ==
  IF ~cond
    THEN [call |-> "issue_error_nothrow", handling |-> "none",
          evaluated |-> TRUE]
    ELSE NoCall

\* #define AssertNothrow(cond, exc)
AssertNothrow(dbg, cond) ==
  IF ~dbg
    THEN NotCompiled
    ELSE IF ~cond
           THEN [call |-> "issue_error_nothrow", handling |-> "none", evaluated |-> TRUE]
           ELSE NoCall

\* AssertThrow as it would be with the handling of Assert
AssertThrow_with_abort_or_throw(cond) ==
  IF ~cond
    THEN [call |-> "issue_error_noreturn",
          handling |-> abort_or_throw_on_exception, evaluated |-> TRUE]
    ELSE NoCall

\* #define AssertThrow(cond, exc)
AssertThrow(cond) ==
  IF ~cond
    THEN [call |-> "issue_error_noreturn", handling |-> throw_on_exception, evaluated |-> TRUE]
    ELSE NoCall

---------------------------------------------------------------------------
(* The dispatchers.  Each operator gives the effect of a piece of a        *)
(* dispatcher as the values the variables take after it.                   *)

\* issue_error_noreturn as it would be without the call of set_fields
issue_error_noreturn_fill_omitted(e, c) ==
  [pc |-> "issue_error_noreturn_switch", exc |-> e]

\* The fill as it would be if the name of the exception were passed in
\* the place of the text of the condition
issue_error_noreturn_fill_without_cond(e, c) ==
  [pc |-> "issue_error_noreturn_switch",
   exc |-> set_fields(e, c.site.file, c.site.line, c.site.function,
                      c.exc_name, c.exc_name, c.frames)]

\* issue_error_noreturn, up to the switch: fill the fields of e
issue_error_noreturn_fill(e, c) ==
  [pc |-> "issue_error_noreturn_switch",
   exc |-> set_fields(e, c.site.file, c.site.line, c.site.function,
                      c.site.cond, c.exc_name, c.frames)]

\* The switch as it would be with the test of the abort flag inverted
issue_error_noreturn_switch_inverted(handling, allow, e) ==
  CASE handling = abort_or_throw_on_exception ->
         IF ~allow
           THEN [pc |-> "abort", thrown |-> NoExc]
           ELSE [pc |-> "thrown", thrown |-> e]
    [] handling = throw_on_exception ->
         [pc |-> "thrown", thrown |-> e]
    [] OTHER ->
         [pc |-> "thrown", thrown |-> ExceptionBase(ExcInternalError)]

\* The switch as it would be if abort_or_throw_on_exception always aborted
issue_error_noreturn_switch_always_abort(handling, allow, e) ==
  CASE handling = abort_or_throw_on_exception ->
         [pc |-> "abort", thrown |-> NoExc]
    [] handling = throw_on_exception ->
         [pc |-> "thrown", thrown |-> e]
    [] OTHER ->
         [pc |-> "thrown", thrown |-> ExceptionBase(ExcInternalError)]

\* The switch as it would be if throw_on_exception threw a new
\* ExcInternalError instead of e
issue_error_noreturn_switch_throws_other(handling, allow, e) ==
  CASE handling = abort_or_throw_on_exception ->
         IF allow
           THEN [pc |-> "abort", thrown |-> NoExc]
           ELSE [pc |-> "thrown", thrown |-> e]
    [] OTHER ->
         [pc |-> "thrown", thrown |-> ExceptionBase(ExcInternalError)]

\* The switch as it would be if its default label left the switch
issue_error_noreturn_switch_default_breaks(handling, allow, e) ==
  CASE handling = abort_or_throw_on_exception ->
         IF allow
           THEN [pc |-> "abort", thrown |-> NoExc]
           ELSE [pc |-> "thrown", thrown |-> e]
    [] handling = throw_on_exception ->
         [pc |-> "thrown", thrown |-> e]
    [] OTHER ->
         [pc |-> "idle", thrown |-> NoExc]

\* The switch as it would be if its default label threw e
issue_error_noreturn_switch_default_throws_e(handling, allow, e) ==
  CASE handling = abort_or_throw_on_exception ->
         IF allow
           THEN [pc |-> "abort", thrown |-> NoExc]
           ELSE [pc |-> "thrown", thrown |-> e]
    [] OTHER ->
         [pc |-> "thrown", thrown |-> e]

\* issue_error_noreturn, the switch on handling
issue_error_noreturn_switch(handling, allow, e) ==
  CASE handling = abort_or_throw_on_exception ->
         IF allow
           THEN [pc |-> "abort", thrown |-> NoExc]
           ELSE [pc |-> "thrown", thrown |-> e]
    [] handling = throw_on_exception ->
         [pc |-> "thrown", thrown |-> e]
    [] OTHER ->
         [pc |-> "thrown", thrown |-> ExceptionBase(ExcInternalError)]

\* issue_error_nothrow as it would be without the call of
\* do_issue_error_nothrow
issue_error_nothrow_returns(e, c) ==
  [pc |-> "idle",
   exc |-> set_fields(e, c.site.file, c.site.line, c.site.function,
                      c.site.cond, c.exc_name, c.frames),
   thrown |-> NoExc]

\* issue_error_nothrow as it would be if it threw e
issue_error_nothrow_throws(e, c) ==
  [pc |-> "thrown",
   exc |-> set_fields(e, c.site.file, c.site.line, c.site.function,
                      c.site.cond, c.exc_name, c.frames),
   thrown |-> set_fields(e, c.site.file, c.site.line, c.site.function,
                         c.site.cond, c.exc_name, c.frames)]

\* issue_error_nothrow: fill the fields of e, then call
\* do_issue_error_nothrow(e)
issue_error_nothrow(e, c) ==
  [pc |-> "do_issue_error_nothrow",
   exc |-> set_fields(e, c.site.file, c.site.line, c.site.function,
                      c.site.cond, c.exc_name, c.frames),
   thrown |-> NoExc]

\* do_issue_error_nothrow(e): as Assert while aborting is allowed,
\* otherwise print the exception to deallog and return
do_issue_error_nothrow(allow, e, log) ==
  IF allow
    THEN [pc |-> "abort", deallog |-> log]
    ELSE [pc |-> "idle", deallog |-> Append(log, e)]

---------------------------------------------------------------------------
(* The message of an exception.  A message is the sequence of its          *)
(* sections, each with the text printed for it.                            *)

\* print_exc_data: the general part of the error information
print_exc_data(e) ==
  << [section |-> "file", text |-> e.file],
     [section |-> "line", text |-> ToString(e.line)],
     [section |-> "function", text |-> e.function] >>
  \o (IF e.cond = nullptr
        THEN << >>
        ELSE << [section |-> "cond", text |-> e.cond] >>)
  \o (IF e.exc_name = nullptr
        THEN << >>
        ELSE << [section |-> "exc_name", text |-> e.exc_name] >>)

\* print_info: the explanation specific to the class of the exception
print_info(e) ==
  << [section |-> "info", text |-> e.arg] >>

\* print_stack_trace as it would be if it printed whatever was recorded
print_stack_trace_unconditional(e, show) ==
  IF e.n_stacktrace_frames = 0
    THEN << >>
    ELSE << [section |-> "stacktrace",
             text |-> ToString(e.n_stacktrace_frames)] >>

\* print_stack_trace: the stack trace, if one was recorded and stack
\* traces are not suppressed
print_stack_trace(e, show) ==
  IF e.n_stacktrace_frames = 0 \/ ~show
    THEN << >>
    ELSE << [section |-> "stacktrace",
             text |-> ToString(e.n_stacktrace_frames)] >>

\* generate_message as it would be if the stack trace were printed before
\* the explanation of the class
generate_message_trace_first(e, show) ==
  print_exc_data(e) \o print_stack_trace(e, show) \o print_info(e)

\* generate_message: the text what() hands out
generate_message(e, show) ==
  print_exc_data(e) \o print_info(e) \o print_stack_trace(e, show)

\* what() as it would be if it built the message anew on every call and
\* kept none
what_uncached(e, show) ==
  [e |-> e, text |-> generate_message(e, show)]

\* what() as it would be if it called generate_message on every call
what_regenerating(e, show) ==
  LET m == generate_message(e, show)
  IN  [e |-> [e EXCEPT !.what_str = m, !.generate_calls = @ + 1],
       text |-> m]

\* what(): the message, generated on the first call and kept in what_str
what(e, show) ==
  IF e.what_str = << >>
    THEN LET m == generate_message(e, show)
         IN  [e |-> [e EXCEPT !.what_str = m, !.generate_calls = @ + 1],
              text |-> m]
    ELSE [e |-> e, text |-> e.what_str]

\* The additional output of a termination report, if a string is set
print_additional_assert_output(add) ==
  IF add = "" THEN << >> ELSE << [section |-> "additional", text |-> add] >>

\* internals::abort as it would be if it returned to its caller after
\* printing
abort_returning(e, add, show) ==
  LET w == what(e, show)
  IN  [pc |-> "idle",
       exc |-> w.e,
       cerr |-> w.text \o print_additional_assert_output(add)]

\* internals::abort(exc): print the message of exc and the additional
\* output to std::cerr, then std::abort()
abort(e, add, show) ==
  LET w == what(e, show)
  IN  [pc |-> "terminated",
       exc |-> w.e,
       cerr |-> w.text \o print_additional_assert_output(add)]

\* set_additional_assert_output as it would be if a string once set were
\* kept
stored_additional_assert_output_kept(old, p) == IF old = "" THEN p ELSE old

\* set_additional_assert_output(p): the string stored, a copy of what p
\* points to, in place of the string stored before
stored_additional_assert_output(old, p) == p

---------------------------------------------------------------------------
(* The initial state: a process in which nothing was called yet, built     *)
(* with or without DEBUG.                                                  *)

Init ==
  /\ pc = "idle"
  /\ allow_abort_on_exception = allow_abort_on_exception_default
  /\ debug \in BOOLEAN
  /\ check = NoCheck
  /\ exc = NoExc
  /\ thrown = NoExc
  /\ deallog = <<>>
  /\ outcome = "none"
  /\ n_checks = 0
  /\ last_toggle = "none"
  /\ disable_called = FALSE
  /\ additional_assert_output = ""
  /\ show_stacktrace = TRUE
  /\ buffer \in Texts
  /\ last_output_set = "none"
  /\ caught = NoExc
  /\ what_returned = <<>>
  /\ cerr = <<>>
  /\ arith = NoArith

---------------------------------------------------------------------------
(* The toggles of the abort flag *)

\* The three process-wide settings
PolicyState ==
  [allow_abort_on_exception |-> allow_abort_on_exception,
   additional_assert_output |-> additional_assert_output,
   show_stacktrace |-> show_stacktrace]

\* disable_abort_on_exception() as it would be if it inverted the flag
disabled_by_inverting(p) ==
  [p EXCEPT !.allow_abort_on_exception = ~@]

\* The settings after disable_abort_on_exception()
disabled(p) == [p EXCEPT !.allow_abort_on_exception = FALSE]

\* The settings after enable_abort_on_exception()
enabled(p) == [p EXCEPT !.allow_abort_on_exception = TRUE]

disable_abort_on_exception ==
  /\ pc = "idle"
  /\ LET p == disabled(PolicyState)
     IN  /\ allow_abort_on_exception' = p.allow_abort_on_exception
         /\ additional_assert_output' = p.additional_assert_output
         /\ show_stacktrace' = p.show_stacktrace
  /\ last_toggle' = "disable"
  /\ disable_called' = TRUE
  /\ UNCHANGED <<pc, debug, check, exc, thrown, deallog, outcome, n_checks>>
  /\ UNCHANGED <<buffer, last_output_set, handler_vars, cerr, arith>>

enable_abort_on_exception ==
  /\ pc = "idle"
  /\ LET p == enabled(PolicyState)
     IN  /\ allow_abort_on_exception' = p.allow_abort_on_exception
         /\ additional_assert_output' = p.additional_assert_output
         /\ show_stacktrace' = p.show_stacktrace
  /\ last_toggle' = "enable"
  /\ UNCHANGED <<pc, debug, check, exc, thrown, deallog, outcome, n_checks,
                 disable_called>>
  /\ UNCHANGED <<buffer, last_output_set, handler_vars, cerr, arith>>

set_additional_assert_output ==
  /\ pc = "idle"
  /\ additional_assert_output' =
       stored_additional_assert_output(additional_assert_output, buffer)
  /\ last_output_set' = buffer
  /\ UNCHANGED <<pc, allow_abort_on_exception, debug, check, exc, thrown,
                 deallog, outcome, n_checks, last_toggle, disable_called,
                 show_stacktrace, buffer, handler_vars, cerr, arith>>

\* The caller overwrites the buffer it handed to
\* set_additional_assert_output
ChangeBuffer ==
  /\ pc = "idle"
  /\ buffer' \in Texts \ {buffer}
  /\ UNCHANGED <<pc, allow_abort_on_exception, debug, check, exc, thrown,
                 deallog, outcome, n_checks, last_toggle, disable_called,
                 additional_assert_output, show_stacktrace, last_output_set,
                 handler_vars, cerr, arith>>

suppress_stacktrace_in_exceptions ==
  /\ pc = "idle"
  /\ show_stacktrace' = FALSE
  /\ UNCHANGED <<pc, allow_abort_on_exception, debug, check, exc, thrown,
                 deallog, outcome, n_checks, last_toggle, disable_called,
                 additional_assert_output, buffer, last_output_set,
                 handler_vars, cerr, arith>>

---------------------------------------------------------------------------
(* A check site is reached: the macro's expansion runs up to the call of   *)
(* its dispatcher, or to the end of the check when it calls none.          *)

\* A check that is handed the exception object e and the text exc_name
\* of the expression that constructs it
RunCheckWith(macro, x, cond, e, exc_name, site, on_host, frames) ==
  /\ pc = "idle"
  /\ n_checks < MaxChecks
  /\ n_checks' = n_checks + 1
  /\ check' = [macro |-> macro, cond |-> cond, kind |-> e.kind, site |-> site,
               exc_name |-> exc_name, on_host |-> on_host, call |-> x.call,
               handling |-> x.handling, evaluated |-> x.evaluated,
               frames |-> frames]
  /\ thrown' = NoExc
  /\ CASE x.call = "none" ->
            /\ pc' = "idle"
            /\ exc' = NoExc
            /\ outcome' = "continued"
       [] x.call = "Kokkos::abort" ->
            /\ pc' = "terminated"
            /\ exc' = NoExc
            /\ outcome' = "kokkos_aborted"
       [] OTHER ->
            /\ pc' = x.call
            /\ exc' = e
            /\ outcome' = "pending"
  /\ caught' = NoExc
  /\ what_returned' = <<>>
  /\ UNCHANGED <<allow_abort_on_exception, debug, deallog, last_toggle,
                 disable_called, output_vars, cerr, arith>>

\* A check that is handed a default-constructed object of the class kind,
\* written as the name of the class
RunCheck(macro, x, cond, kind, site, on_host, frames) ==
  /\ pc = "idle"
  /\ n_checks < MaxChecks
  /\ n_checks' = n_checks + 1
  /\ check' = [macro |-> macro, cond |-> cond, kind |-> kind, site |-> site,
               exc_name |-> kind, on_host |-> on_host, call |-> x.call,
               handling |-> x.handling, evaluated |-> x.evaluated,
               frames |-> frames]
  /\ thrown' = NoExc
  /\ CASE x.call = "none" ->
            /\ pc' = "idle"
            /\ exc' = NoExc
            /\ outcome' = "continued"
       [] x.call = "Kokkos::abort" ->
            /\ pc' = "terminated"
            /\ exc' = NoExc
            /\ outcome' = "kokkos_aborted"
       [] OTHER ->
            /\ pc' = x.call
            /\ exc' = ExceptionBase(kind)
            /\ outcome' = "pending"
  /\ caught' = NoExc
  /\ what_returned' = <<>>
  /\ UNCHANGED <<allow_abort_on_exception, debug, deallog, last_toggle,
                 disable_called, output_vars, cerr, arith>>


AssertCheck ==
  \E cond \in BOOLEAN, kind \in Kinds, site \in CallSites, on_host \in BOOLEAN :
   \E frames \in {n_stacktrace_frames_at(site)} :
    RunCheck("Assert", AssertMacro(debug, on_host, cond), cond, kind, site,
             on_host, frames)

AssertNothrowCheck ==
  \E cond \in BOOLEAN, kind \in Kinds, site \in CallSites :
   \E frames \in {n_stacktrace_frames_at(site)} :
    RunCheck("AssertNothrow", AssertNothrow(debug, cond), cond, kind, site,
             TRUE, frames)

AssertThrowCheck ==
  \E cond \in BOOLEAN, kind \in Kinds, site \in CallSites :
   \E frames \in {n_stacktrace_frames_at(site)} :
    RunCheck("AssertThrow", AssertThrow(cond), cond, kind, site, TRUE, frames)

\* issue_error_noreturn called with any value of its handling argument
CallIssueErrorNoreturn ==
  \E handling \in HandlingValues, kind \in Kinds, site \in CallSites :
   \E frames \in {n_stacktrace_frames_at(site)} :
    RunCheck("issue_error_noreturn",
             [call |-> "issue_error_noreturn", handling |-> handling,
              evaluated |-> TRUE],
             FALSE, kind, site, TRUE, frames)

---------------------------------------------------------------------------
(* The statements of the dispatchers *)

\* How the check ended, from where a statement of a dispatcher leaves the
\* thread: in internals::abort, with an exception in flight, or back in
\* the caller right after the check
outcome_at_abort_continuing(p, old) ==
  CASE p = "abort" -> "continued"
    [] p = "thrown" -> "thrown"
    [] p = "idle" -> "continued"
    [] OTHER -> old

outcome_at(p, old) ==
  CASE p = "abort" -> "aborted"
    [] p = "thrown" -> "thrown"
    [] p = "idle" -> "continued"
    [] OTHER -> old

NoreturnFill ==
  /\ pc = "issue_error_noreturn"
  /\ LET r == issue_error_noreturn_fill(exc, check)
     IN  /\ pc' = r.pc
         /\ exc' = r.exc
         /\ outcome' = outcome_at(r.pc, outcome)
  /\ UNCHANGED <<allow_abort_on_exception, debug, check, thrown, deallog,
                 n_checks, last_toggle, disable_called>>
  /\ UNCHANGED <<output_vars, handler_vars, cerr, arith>>

\* The switch as it would be if throwing cleared the abort flag
NoreturnSwitch_clearing_the_flag ==
  /\ pc = "issue_error_noreturn_switch"
  /\ LET r == issue_error_noreturn_switch(check.handling,
                                          allow_abort_on_exception, exc)
     IN  /\ pc' = r.pc
         /\ thrown' = r.thrown
         /\ outcome' = outcome_at(r.pc, outcome)
         /\ allow_abort_on_exception' =
              (allow_abort_on_exception /\ r.pc # "thrown")
  /\ UNCHANGED <<debug, check, exc, deallog,
                 n_checks, last_toggle, disable_called>>
  /\ UNCHANGED <<output_vars, handler_vars, cerr, arith>>

NoreturnSwitch ==
  /\ pc = "issue_error_noreturn_switch"
  /\ LET r == issue_error_noreturn_switch(check.handling,
                                          allow_abort_on_exception, exc)
     IN  /\ pc' = r.pc
         /\ thrown' = r.thrown
         /\ outcome' = outcome_at(r.pc, outcome)
  /\ UNCHANGED <<allow_abort_on_exception, debug, check, exc, deallog,
                 n_checks, last_toggle, disable_called>>
  /\ UNCHANGED <<output_vars, handler_vars, cerr, arith>>

NothrowFill ==
  /\ pc = "issue_error_nothrow"
  /\ LET r == issue_error_nothrow(exc, check)
     IN  /\ pc' = r.pc
         /\ exc' = r.exc
         /\ thrown' = r.thrown
         /\ outcome' = outcome_at(r.pc, outcome)
  /\ UNCHANGED <<allow_abort_on_exception, debug, check, deallog,
                 n_checks, last_toggle, disable_called>>
  /\ UNCHANGED <<output_vars, handler_vars, cerr, arith>>

DoIssueErrorNothrow ==
  /\ pc = "do_issue_error_nothrow"
  /\ LET r == do_issue_error_nothrow(allow_abort_on_exception, exc, deallog)
     IN  /\ pc' = r.pc
         /\ deallog' = r.deallog
         /\ outcome' = outcome_at(r.pc, outcome)
  /\ UNCHANGED <<allow_abort_on_exception, debug, check, exc, thrown,
                 n_checks, last_toggle, disable_called>>
  /\ UNCHANGED <<output_vars, handler_vars, cerr, arith>>

\* internals::abort(exc)
Abort ==
  /\ pc = "abort"
  /\ LET r == abort(exc, additional_assert_output, show_stacktrace)
     IN  /\ pc' = r.pc
         /\ exc' = r.exc
         /\ cerr' = r.cerr
  /\ UNCHANGED <<allow_abort_on_exception, debug, check, thrown, deallog,
                 outcome, n_checks, last_toggle, disable_called, output_vars,
                 handler_vars, arith>>

\* The exception in flight reaches a handler of the calling program
Catch ==
  /\ pc = "thrown"
  /\ pc' = "idle"
  /\ thrown' = NoExc
  /\ caught' = thrown
  /\ what_returned' = << >>
  /\ UNCHANGED <<allow_abort_on_exception, debug, check, exc, deallog,
                 outcome, n_checks, last_toggle, disable_called, output_vars,
                 cerr, arith>>

\* The handler asks the exception it caught for its message
What ==
  /\ pc = "idle"
  /\ caught # NoExc
  /\ Len(what_returned) < MaxWhatCalls
  /\ LET w == what(caught, show_stacktrace)
     IN  /\ caught' = w.e
         /\ what_returned' = Append(what_returned, w.text)
  /\ UNCHANGED <<pc, allow_abort_on_exception, debug, check, exc, thrown,
                 deallog, outcome, n_checks, last_toggle, disable_called,
                 output_vars, cerr, arith>>

\* No handler catches the exception in flight: std::terminate()
Uncaught ==
  /\ pc = "thrown"
  /\ pc' = "terminated"
  /\ UNCHANGED <<allow_abort_on_exception, debug, check, exc, thrown, deallog,
                 outcome, n_checks, last_toggle, disable_called>>
  /\ UNCHANGED <<output_vars, handler_vars, cerr, arith>>

Next ==
  \/ disable_abort_on_exception
  \/ enable_abort_on_exception
  \/ AssertCheck
  \/ AssertNothrowCheck
  \/ AssertThrowCheck
  \/ CallIssueErrorNoreturn
  \/ NoreturnFill
  \/ NoreturnSwitch
  \/ NothrowFill
  \/ DoIssueErrorNothrow
  \/ Abort
  \/ Catch
  \/ What
  \/ Uncaught
  \/ set_additional_assert_output
  \/ ChangeBuffer
  \/ suppress_stacktrace_in_exceptions

Spec == Init /\ [][Next]_vars

---------------------------------------------------------------------------
(* A second thread that calls the toggles while the first one is inside a  *)
(* check.  The flag is a plain bool without synchronisation: a read that   *)
(* races with a write yields the value before or the value after the       *)
(* write, which the interleaving of the steps covers.                      *)

OtherThreadDisable ==
  /\ pc # "idle"
  /\ pc # "terminated"
  /\ allow_abort_on_exception' = FALSE
  /\ last_toggle' = "disable"
  /\ disable_called' = TRUE
  /\ UNCHANGED <<pc, debug, check, exc, thrown, deallog, outcome, n_checks>>
  /\ UNCHANGED <<output_vars, handler_vars, cerr, arith>>

OtherThreadEnable ==
  /\ pc # "idle"
  /\ pc # "terminated"
  /\ allow_abort_on_exception' = TRUE
  /\ last_toggle' = "enable"
  /\ UNCHANGED <<pc, debug, check, exc, thrown, deallog, outcome, n_checks,
                 disable_called>>
  /\ UNCHANGED <<output_vars, handler_vars, cerr, arith>>

NextConcurrent ==
  \/ Next
  \/ OtherThreadDisable
  \/ OtherThreadEnable

SpecConcurrent == Init /\ [][NextConcurrent]_vars

\* The thread that entered internals::abort goes on running: abort prints
\* and ends the process
FairSpecConcurrent == SpecConcurrent /\ WF_vars(Abort)

---------------------------------------------------------------------------
(* Index checks.  The integer types of an index and of a range: int and    *)
(* unsigned int of Width bits, std::size_t one bit wider.  long long, the  *)
(* type of the arguments of ExcInvalidIntegerConversion, is as wide as     *)
(* std::size_t.                                                            *)

IntTypes == {"int", "unsigned int", "std::size_t"}

is_signed(T) == T = "int" \/ T = "long long"

bits(T) ==
  IF T = "std::size_t" \/ T = "long long" THEN Width + 1 ELSE Width

\* The values of type T
Values(T) ==
  IF is_signed(T)
    THEN -(2^(bits(T) - 1)) .. 2^(bits(T) - 1) - 1
    ELSE 0 .. 2^bits(T) - 1

\* static_cast<T>(v): v modulo 2^bits(T), in the range of T
static_cast(T, v) ==
  IF is_signed(T)
    THEN ((v + 2^(bits(T) - 1)) % 2^bits(T)) - 2^(bits(T) - 1)
    ELSE v % 2^bits(T)

\* std::common_type_t<T, U>: the usual arithmetic conversions
common_type(T, U) ==
  IF T = U THEN T
  ELSE IF T = "std::size_t" \/ U = "std::size_t" THEN "std::size_t"
  ELSE "unsigned int"

\* compare_less_than: both values are converted to the common type and
\* compared there
compare_less_than(T, t, U, u) ==
  static_cast(common_type(T, U), t) < static_cast(common_type(T, U), u)

\* ExcIndexRangeType<T>(a1, a2, a3); ExcIndexRange is the one of
\* std::size_t.  The constructor takes its arguments as T.
ExcIndexRangeType(T, a1, a2, a3) ==
  [kind |-> "ExcIndexRangeType", type |-> T,
   arg1 |-> static_cast(T, a1),
   arg2 |-> static_cast(T, a2),
   arg3 |-> static_cast(T, a3)]

empty_range_note ==
  " In the current case, this half-open range is in fact empty, suggesting that you are accessing an element of an empty collection such as a vector that has not been set to the correct size."

\* print_info as it would be with the note printed for the ranges that
\* are not empty
ExcIndexRangeType_print_info_inverted(e) ==
  << "    ", "Index ", ToString(e.arg1),
     " is not in the half-open range [", ToString(e.arg2), ",",
     ToString(e.arg3), ")." >>
   \o (IF e.arg2 # e.arg3 THEN << empty_range_note >> ELSE << >>)

\* print_info of ExcIndexRange and ExcIndexRangeType: the pieces written
\* to the stream, one after the other
ExcIndexRangeType_print_info(e) ==
  << "    ", "Index ", ToString(e.arg1),
     " is not in the half-open range [", ToString(e.arg2), ",",
     ToString(e.arg3), ")." >>
   \o (IF e.arg2 = e.arg3 THEN << empty_range_note >> ELSE << >>)

\* AssertIndexRange(index, range), index of type T and range of type U
AssertIndexRange(dbg, T, index, U, range) ==
  LET x == AssertMacro(dbg, TRUE, compare_less_than(T, index, U, range))
  IN  [call |-> x.call, handling |-> x.handling, evaluated |-> x.evaluated,
       exc |-> IF x.call = "none"
                 THEN NoExc
                 ELSE ExcIndexRangeType(common_type(T, U), index, 0, range)]

\* A program about to check or to report an index: nothing was called yet
InitIndexRange ==
  /\ pc = "idle"
  /\ allow_abort_on_exception = allow_abort_on_exception_default
  /\ debug \in BOOLEAN
  /\ check = NoCheck
  /\ exc = NoExc
  /\ thrown = NoExc
  /\ deallog = <<>>
  /\ outcome = "none"
  /\ n_checks = 0
  /\ last_toggle = "none"
  /\ disable_called = FALSE
  /\ additional_assert_output = ""
  /\ show_stacktrace = TRUE
  /\ buffer = "host-a"
  /\ last_output_set = "none"
  /\ caught = NoExc
  /\ what_returned = <<>>
  /\ cerr = <<>>
  /\ \E T \in IntTypes, U \in IntTypes :
       \E index \in Values(T), range \in Values(U) :
         arith = [phase |-> "input", index_type |-> T, index |-> index,
                  range_type |-> U, range |-> range]

\* AssertIndexRange(index, range) is reached
AssertIndexRangeCheck ==
  /\ arith.phase = "input"
  /\ LET x == AssertIndexRange(debug, arith.index_type, arith.index,
                               arith.range_type, arith.range)
     IN  arith' = [phase |-> "checked",
                   index_type |-> arith.index_type, index |-> arith.index,
                   range_type |-> arith.range_type, range |-> arith.range,
                   call |-> x.call, handling |-> x.handling,
                   evaluated |-> x.evaluated, exc |-> x.exc]
  /\ UNCHANGED <<pc, allow_abort_on_exception, debug, check, exc, thrown,
                 deallog, outcome, n_checks, last_toggle, disable_called,
                 output_vars, handler_vars, cerr>>

\* An ExcIndexRangeType<T> is constructed for the index and a range
\* [lower, range)
ConstructExcIndexRange ==
  /\ arith.phase = "input"
  /\ \E lower \in Values(arith.range_type) :
       arith' = [phase |-> "constructed",
                 index_type |-> arith.index_type, index |-> arith.index,
                 range_type |-> arith.range_type, range |-> arith.range,
                 lower |-> lower,
                 exc |-> ExcIndexRangeType(
                           common_type(arith.index_type, arith.range_type),
                           arith.index, lower, arith.range)]
  /\ UNCHANGED <<pc, allow_abort_on_exception, debug, check, exc, thrown,
                 deallog, outcome, n_checks, last_toggle, disable_called,
                 output_vars, handler_vars, cerr>>

\* print_info of the exception of a failed or constructed index check
PrintInfo ==
  /\ arith.phase = "checked" \/ arith.phase = "constructed"
  /\ arith.exc # NoExc
  /\ arith' = [phase |-> "printed", exc |-> arith.exc,
               message |-> ExcIndexRangeType_print_info(arith.exc)]
  /\ UNCHANGED <<pc, allow_abort_on_exception, debug, check, exc, thrown,
                 deallog, outcome, n_checks, last_toggle, disable_called,
                 output_vars, handler_vars, cerr>>

NextIndexRange ==
  \/ AssertIndexRangeCheck
  \/ ConstructExcIndexRange
  \/ PrintInfo

SpecIndexRange == InitIndexRange /\ [][NextIndexRange]_vars

---------------------------------------------------------------------------
(* The checks of two integers: AssertDimension and the checks of integer   *)
(* conversions.  The two arguments are the typed values arith.index and    *)
(* arith.range of the initial state.                                       *)

\* compare_for_equality as it would be if it compared the values as
\* written
compare_for_equality_as_written(T, t, U, u) == t = u

\* compare_for_equality: both values are converted to the common type and
\* compared there
compare_for_equality(T, t, U, u) ==
  static_cast(common_type(T, U), t) = static_cast(common_type(T, U), u)

\* The constructor of a class declared by DeclException2(kind, T1, T2, ..)
DeclException2(kind, T1, T2, a1, a2) ==
  [kind |-> kind,
   arg1 |-> static_cast(T1, a1),
   arg2 |-> static_cast(T2, a2)]

\* print_info of ExcDimensionMismatch
ExcDimensionMismatch_print_info(e) ==
  << "    ", "Two sizes or dimensions were supposed to be equal, ",
     "but aren't. They are ", ToString(e.arg1), " and ", ToString(e.arg2),
     "." >>

\* AssertDimension(dim1, dim2), dim1 of type T and dim2 of type U
AssertDimension(dbg, T, dim1, U, dim2) ==
  LET x == AssertMacro(dbg, TRUE, compare_for_equality(T, dim1, U, dim2))
  IN  [call |-> x.call, handling |-> x.handling, evaluated |-> x.evaluated,
       exc |-> IF x.call = "none"
                 THEN NoExc
                 ELSE DeclException2(ExcDimensionMismatch, "std::size_t",
                                     "std::size_t", dim1, dim2)]

ExcInvalidIntegerConversion == "ExcInvalidIntegerConversion"

\* print_info of ExcInvalidIntegerConversion
ExcInvalidIntegerConversion_print_info(e) ==
  << "    ",
     "Two integers should be equal to each other after a type conversion but ",
     "aren't. A typical cause of this problem is that the integral types ",
     "used by deal.II and an external library are different (e.g., one uses ",
     "32-bit integers and the other uses 64-bit integers). The integers are ",
     ToString(e.arg1), " and ", ToString(e.arg2), "." >>

\* AssertIntegerConversion(index1, index2), index1 of type T and index2 of
\* type U
AssertIntegerConversion(dbg, T, index1, U, index2) ==
  LET x == AssertMacro(dbg, TRUE, compare_for_equality(T, index1, U, index2))
  IN  [call |-> x.call, handling |-> x.handling, evaluated |-> x.evaluated,
       exc |-> IF x.call = "none"
                 THEN NoExc
                 ELSE DeclException2(ExcInvalidIntegerConversion, "long long",
                                     "long long", index1, index2)]

\* AssertThrowIntegerConversion as it would be if it checked that index1
\* is less than index2
AssertThrowIntegerConversion_comparing_less_than(T, index1, U, index2) ==
  LET x == AssertThrow(compare_less_than(T, index1, U, index2))
  IN  [call |-> x.call, handling |-> x.handling, evaluated |-> x.evaluated,
       exc |-> IF x.call = "none"
                 THEN NoExc
                 ELSE DeclException2(ExcInvalidIntegerConversion, "long long",
                                     "long long", index1, index2)]

\* AssertThrowIntegerConversion(index1, index2)
AssertThrowIntegerConversion(T, index1, U, index2) ==
  LET x == AssertThrow(compare_for_equality(T, index1, U, index2))
  IN  [call |-> x.call, handling |-> x.handling, evaluated |-> x.evaluated,
       exc |-> IF x.call = "none"
                 THEN NoExc
                 ELSE DeclException2(ExcInvalidIntegerConversion, "long long",
                                     "long long", index1, index2)]

\* The state after a check of the two integers by the given macro
checked(macro, x) ==
  [phase |-> "checked", macro |-> macro,
   index_type |-> arith.index_type, index |-> arith.index,
   range_type |-> arith.range_type, range |-> arith.range,
   call |-> x.call, handling |-> x.handling,
   evaluated |-> x.evaluated, exc |-> x.exc]

AssertDimensionCheck ==
  /\ arith.phase = "input"
  /\ arith' = checked("AssertDimension",
                      AssertDimension(debug, arith.index_type, arith.index,
                                      arith.range_type, arith.range))
  /\ UNCHANGED <<pc, allow_abort_on_exception, debug, check, exc, thrown,
                 deallog, outcome, n_checks, last_toggle, disable_called,
                 output_vars, handler_vars, cerr>>

AssertIntegerConversionCheck ==
  /\ arith.phase = "input"
  /\ arith' = checked("AssertIntegerConversion",
                      AssertIntegerConversion(debug, arith.index_type,
                                              arith.index, arith.range_type,
                                              arith.range))
  /\ UNCHANGED <<pc, allow_abort_on_exception, debug, check, exc, thrown,
                 deallog, outcome, n_checks, last_toggle, disable_called,
                 output_vars, handler_vars, cerr>>

AssertThrowIntegerConversionCheck ==
  /\ arith.phase = "input"
  /\ arith' = checked("AssertThrowIntegerConversion",
                      AssertThrowIntegerConversion(arith.index_type,
                                                   arith.index,
                                                   arith.range_type,
                                                   arith.range))
  /\ UNCHANGED <<pc, allow_abort_on_exception, debug, check, exc, thrown,
                 deallog, outcome, n_checks, last_toggle, disable_called,
                 output_vars, handler_vars, cerr>>

\* print_info of the exception of a failed check, by its class
print_info_of(e) ==
  CASE e.kind = ExcDimensionMismatch -> ExcDimensionMismatch_print_info(e)
    [] e.kind = ExcInvalidIntegerConversion ->
         ExcInvalidIntegerConversion_print_info(e)

PrintInfoOfCheck ==
  /\ arith.phase = "checked"
  /\ arith.exc # NoExc
  /\ arith' = [phase |-> "printed", macro |-> arith.macro,
               index_type |-> arith.index_type, index |-> arith.index,
               range_type |-> arith.range_type, range |-> arith.range,
               exc |-> arith.exc, message |-> print_info_of(arith.exc)]
  /\ UNCHANGED <<pc, allow_abort_on_exception, debug, check, exc, thrown,
                 deallog, outcome, n_checks, last_toggle, disable_called,
                 output_vars, handler_vars, cerr>>

NextIntegerChecks ==
  \/ AssertDimensionCheck
  \/ AssertIntegerConversionCheck
  \/ AssertThrowIntegerConversionCheck
  \/ PrintInfoOfCheck

SpecIntegerChecks == InitIndexRange /\ [][NextIntegerChecks]_vars

---------------------------------------------------------------------------
(* The program of tests/lac/trace.cc: a square matrix with the entries     *)
(* m(i,j) = i+j, the sum tr of its diagonal entries accumulated while the  *)
(* matrix is filled, and the check Assert(m.trace() == tr, ...).           *)

N == 20

\* FullMatrix::trace(): the sum of the diagonal entries
RECURSIVE diagonal_sum(_, _)
diagonal_sum(m, n) ==
  IF n = 0 THEN 0 ELSE diagonal_sum(m, n - 1) + m[<<n - 1, n - 1>>]

FullMatrix_trace(m) == diagonal_sum(m, N)

\* The body of the loops as it would be if it added every entry to tr
loop_body_adding_every_entry(m, tr, i, j) ==
  [m |-> [m EXCEPT ![<<i, j>>] = i + j], tr |-> tr + i + j]

\* The body of the loops: m(i,j) = i+j; if (i==j) tr += i+j;
loop_body(m, tr, i, j) ==
  [m |-> [m EXCEPT ![<<i, j>>] = i + j],
   tr |-> IF i = j THEN tr + i + j ELSE tr]

\* The check site of trace.cc
trace_site == CHOOSE site \in CallSites : site.file = "trace.cc"

InitTrace ==
  /\ pc = "idle"
  /\ allow_abort_on_exception = allow_abort_on_exception_default
  /\ debug \in BOOLEAN
  /\ check = NoCheck
  /\ exc = NoExc
  /\ thrown = NoExc
  /\ deallog = <<>>
  /\ outcome = "none"
  /\ n_checks = 0
  /\ last_toggle = "none"
  /\ disable_called = FALSE
  /\ additional_assert_output = ""
  /\ show_stacktrace = TRUE
  /\ buffer = "host-a"
  /\ last_output_set = "none"
  /\ caught = NoExc
  /\ what_returned = <<>>
  /\ cerr = <<>>
  /\ arith = [phase |-> "loop", i |-> 0, j |-> 0, tr |-> 0,
              m |-> [ij \in (0 .. N - 1) \X (0 .. N - 1) |-> 0]]

\* One pass of the body of the inner loop
TraceLoop ==
  /\ arith.phase = "loop"
  /\ LET b == loop_body(arith.m, arith.tr, arith.i, arith.j)
     IN  arith' =
           [phase |-> IF arith.i = N - 1 /\ arith.j = N - 1
                        THEN "filled" ELSE "loop",
            i |-> IF arith.j = N - 1 THEN arith.i + 1 ELSE arith.i,
            j |-> IF arith.j = N - 1 THEN 0 ELSE arith.j + 1,
            tr |-> b.tr, m |-> b.m]
  /\ UNCHANGED <<pc, allow_abort_on_exception, debug, check, exc, thrown,
                 deallog, outcome, n_checks, last_toggle, disable_called,
                 output_vars, handler_vars, cerr>>

\* A deliberate corruption: one diagonal entry is changed after the loops
TraceCorrupt ==
  /\ arith.phase = "filled"
  /\ \E k \in 0 .. N - 1, d \in {-1, 1} :
       arith' = [arith EXCEPT !.phase = "corrupted",
                              !.m[<<k, k>>] = @ + d]
  /\ UNCHANGED <<pc, allow_abort_on_exception, debug, check, exc, thrown,
                 deallog, outcome, n_checks, last_toggle, disable_called,
                 output_vars, handler_vars, cerr>>

\* deallog << "Trace=" << m.trace() << std::endl;
TraceLog ==
  /\ arith.phase = "filled" \/ arith.phase = "corrupted"
  /\ arith' = [arith EXCEPT !.phase = "logged"]
  /\ deallog' = Append(deallog, << "Trace=", ToString(FullMatrix_trace(arith.m)) >>)
  /\ UNCHANGED <<pc, allow_abort_on_exception, debug, check, exc, thrown,
                 outcome, n_checks, last_toggle, disable_called,
                 output_vars, handler_vars, cerr>>

\* Assert (m.trace() == tr, ExcInternalError());
TraceCheck ==
  /\ arith.phase = "logged"
  /\ n_checks = 0
  /\ RunCheck("Assert",
              AssertMacro(debug, TRUE, FullMatrix_trace(arith.m) = arith.tr),
              FullMatrix_trace(arith.m) = arith.tr, ExcInternalError, trace_site, TRUE,
              n_stacktrace_frames_at(trace_site))

NextTrace ==
  \/ TraceLoop
  \/ TraceCorrupt
  \/ TraceLog
  \/ TraceCheck
  \/ NoreturnFill
  \/ NoreturnSwitch
  \/ Abort

SpecTrace == InitTrace /\ [][NextTrace]_vars

---------------------------------------------------------------------------
(* The checks of the error codes of MPI and ExodusII functions *)

\* MPI_SUCCESS of <mpi.h>
MPI_SUCCESS == 0

ExcMPI == "ExcMPI"

ExcExodusII == "ExcExodusII"

\* ExcMPI(error_code) and ExcExodusII(error_code): the object stores the
\* code
ExcErrorCode(kind, error_code) ==
  [kind |-> kind, file |-> "", line |-> 0, function |-> "", cond |-> "",
   exc_name |-> "", set_fields_calls |-> 0, n_stacktrace_frames |-> 0,
   what_str |-> <<>>, generate_calls |-> 0, arg |-> defaulttext(kind),
   error_code |-> static_cast("int", error_code)]

\* AssertThrowMPI as it would be if it were a check by Assert
AssertThrowMPI_by_Assert(with_mpi, error_code) ==
  IF with_mpi
    THEN AssertMacro(TRUE, TRUE, error_code = MPI_SUCCESS)
    ELSE NotCompiled

\* #define AssertThrowMPI(error_code), with and without DEAL_II_WITH_MPI
AssertThrowMPI(with_mpi, error_code) ==
  IF with_mpi
    THEN AssertThrow(error_code = MPI_SUCCESS)
    ELSE NotCompiled

\* #define AssertThrowExodusII(error_code)
AssertThrowExodusII(error_code) == AssertThrow(error_code = 0)

\* A program that got an error code from a function of MPI or ExodusII,
\* built with or without DEAL_II_WITH_MPI
InitErrorCodes ==
  /\ pc = "idle"
  /\ allow_abort_on_exception = allow_abort_on_exception_default
  /\ debug \in BOOLEAN
  /\ check = NoCheck
  /\ exc = NoExc
  /\ thrown = NoExc
  /\ deallog = <<>>
  /\ outcome = "none"
  /\ n_checks = 0
  /\ last_toggle = "none"
  /\ disable_called = FALSE
  /\ additional_assert_output = ""
  /\ show_stacktrace = TRUE
  /\ buffer = "host-a"
  /\ last_output_set = "none"
  /\ caught = NoExc
  /\ what_returned = <<>>
  /\ cerr = <<>>
  /\ \E with_mpi \in BOOLEAN, error_code \in Values("int") :
       arith = [phase |-> "error_code", with_mpi |-> with_mpi,
                error_code |-> error_code]

AssertThrowMPICheck ==
  /\ arith.phase = "error_code"
  /\ n_checks = 0
  /\ \E site \in CallSites :
       RunCheckWith("AssertThrowMPI",
                    AssertThrowMPI(arith.with_mpi, arith.error_code),
                    arith.error_code = MPI_SUCCESS,
                    ExcErrorCode(ExcMPI, arith.error_code), ExcMPI,
                    site, TRUE, n_stacktrace_frames_at(site))

AssertThrowExodusIICheck ==
  /\ arith.phase = "error_code"
  /\ n_checks = 0
  /\ \E site \in CallSites :
       RunCheckWith("AssertThrowExodusII",
                    AssertThrowExodusII(arith.error_code),
                    arith.error_code = 0,
                    ExcErrorCode(ExcExodusII, arith.error_code), ExcExodusII,
                    site, TRUE, n_stacktrace_frames_at(site))

NextErrorCodes ==
  \/ disable_abort_on_exception
  \/ enable_abort_on_exception
  \/ AssertThrowMPICheck
  \/ AssertThrowExodusIICheck
  \/ NoreturnFill
  \/ NoreturnSwitch
  \/ Catch
  \/ Uncaught

SpecErrorCodes == InitErrorCodes /\ [][NextErrorCodes]_vars

---------------------------------------------------------------------------
(* The places marked as not implemented or as unreachable *)

\* The message DEAL_II_ASSERT_UNREACHABLE() constructs its ExcMessage with
DEAL_II_ASSERT_UNREACHABLE_message ==
  "The program has hit a line of code that the programmer marked with the macro DEAL_II_ASSERT_UNREACHABLE() to indicate that the program should never reach this location. You will have to find out (best done in a debugger) why that happened. Typical reasons include passing invalid arguments to functions (for example, if a function takes an 'enum' with two possible values as argument, but you call the function with a third value), or if the programmer of the code that triggered the error believed that a variable can only have specific values, but either that assumption is wrong or the computation of that value is buggy.\n\nIn those latter conditions, where some internal assumption is not satisfied, there may not be very much you can do if you encounter such an exception, since it indicates an error in deal.II, not in your own program. If that is the situation you encounter, try to come up with the smallest possible program that still demonstrates the error and contact the deal.II mailing lists with it to obtain help."

\* An object of a class declared by DeclException1, constructed with a1
DeclException1(kind, a1) == [ExceptionBase(kind) EXCEPT !.arg = a1]

\* DEAL_II_NOT_IMPLEMENTED() as it would be if it were compiled in debug
\* mode only
DEAL_II_NOT_IMPLEMENTED_in_debug_mode_only(dbg) ==
  IF dbg
    THEN [call |-> "issue_error_noreturn",
          handling |-> abort_or_throw_on_exception, evaluated |-> FALSE]
    ELSE NotCompiled

\* #define DEAL_II_NOT_IMPLEMENTED(), in a build with or without DEBUG
DEAL_II_NOT_IMPLEMENTED(dbg) ==
  [call |-> "issue_error_noreturn",
   handling |-> abort_or_throw_on_exception, evaluated |-> FALSE]

\* #define DEAL_II_ASSERT_UNREACHABLE(), in a build with or without DEBUG
DEAL_II_ASSERT_UNREACHABLE(dbg) ==
  [call |-> "issue_error_noreturn",
   handling |-> abort_or_throw_on_exception, evaluated |-> FALSE]

\* A program about to run into a place marked by one of the two macros
InitUnconditional ==
  /\ pc = "idle"
  /\ allow_abort_on_exception = allow_abort_on_exception_default
  /\ debug \in BOOLEAN
  /\ check = NoCheck
  /\ exc = NoExc
  /\ thrown = NoExc
  /\ deallog = <<>>
  /\ outcome = "none"
  /\ n_checks = 0
  /\ last_toggle = "none"
  /\ disable_called = FALSE
  /\ additional_assert_output = ""
  /\ show_stacktrace = TRUE
  /\ buffer \in Texts
  /\ last_output_set = "none"
  /\ caught = NoExc
  /\ what_returned = <<>>
  /\ cerr = <<>>
  /\ arith = [phase |-> "unconditional"]

NotImplementedCheck ==
  /\ arith.phase = "unconditional"
  /\ n_checks = 0
  /\ \E site \in CallSites :
       RunCheckWith("DEAL_II_NOT_IMPLEMENTED", DEAL_II_NOT_IMPLEMENTED(debug),
                    FALSE, ExceptionBase(ExcNotImplemented), nullptr,
                    [site EXCEPT !.cond = nullptr], TRUE,
                    n_stacktrace_frames_at(site))

AssertUnreachableCheck ==
  /\ arith.phase = "unconditional"
  /\ n_checks = 0
  /\ \E site \in CallSites :
       RunCheckWith("DEAL_II_ASSERT_UNREACHABLE",
                    DEAL_II_ASSERT_UNREACHABLE(debug), FALSE,
                    DeclException1(ExcMessage,
                                   DEAL_II_ASSERT_UNREACHABLE_message),
                    nullptr, [site EXCEPT !.cond = nullptr], TRUE,
                    n_stacktrace_frames_at(site))

NextUnconditional ==
  \/ disable_abort_on_exception
  \/ enable_abort_on_exception
  \/ set_additional_assert_output
  \/ suppress_stacktrace_in_exceptions
  \/ NotImplementedCheck
  \/ AssertUnreachableCheck
  \/ NoreturnFill
  \/ NoreturnSwitch
  \/ Abort
  \/ Catch
  \/ What
  \/ Uncaught

SpecUnconditional == InitUnconditional /\ [][NextUnconditional]_vars

---------------------------------------------------------------------------
(* Failed checks with an object of a class declared by DeclExceptionMsg,   *)
(* constructed with or without a message                                   *)

\* The classes of the model that DeclExceptionMsg declares
MsgKinds == {ExcInternalError, ExcNotImplemented}

\* Messages a caller may pass to the constructor
Messages == {"message-a", "message-b"}

\* The constructor as it would be if it ignored its argument
DeclExceptionMsg_ignoring_msg(kind, given, msg) == ExceptionBase(kind)

\* Exception(const std::string &msg = defaulttext) : arg(msg), called
\* with the argument msg (given) or without an argument
DeclExceptionMsg(kind, given, msg) ==
  [ExceptionBase(kind) EXCEPT !.arg = IF given THEN msg ELSE defaulttext(kind)]

InitDeclExceptionMsg ==
  /\ pc = "idle"
  /\ allow_abort_on_exception = allow_abort_on_exception_default
  /\ debug \in BOOLEAN
  /\ check = NoCheck
  /\ exc = NoExc
  /\ thrown = NoExc
  /\ deallog = <<>>
  /\ outcome = "none"
  /\ n_checks = 0
  /\ last_toggle = "none"
  /\ disable_called = FALSE
  /\ additional_assert_output = ""
  /\ show_stacktrace = TRUE
  /\ buffer = "host-a"
  /\ last_output_set = "none"
  /\ caught = NoExc
  /\ what_returned = <<>>
  /\ cerr = <<>>
  /\ \E kind \in MsgKinds, given \in BOOLEAN, msg \in Messages :
       arith = [phase |-> "DeclExceptionMsg", kind |-> kind,
                given |-> given, msg |-> IF given THEN msg ELSE ""]

\* Assert(false, Exception(msg)) or Assert(false, Exception())
DeclExceptionMsgAssert ==
  /\ arith.phase = "DeclExceptionMsg"
  /\ n_checks = 0
  /\ \E site \in CallSites :
       RunCheckWith("Assert", AssertMacro(debug, TRUE, FALSE), FALSE,
                    DeclExceptionMsg(arith.kind, arith.given, arith.msg),
                    arith.kind, site, TRUE, n_stacktrace_frames_at(site))

\* AssertThrow(false, Exception(msg)) or AssertThrow(false, Exception())
DeclExceptionMsgAssertThrow ==
  /\ arith.phase = "DeclExceptionMsg"
  /\ n_checks = 0
  /\ \E site \in CallSites :
       RunCheckWith("AssertThrow", AssertThrow(FALSE), FALSE,
                    DeclExceptionMsg(arith.kind, arith.given, arith.msg),
                    arith.kind, site, TRUE, n_stacktrace_frames_at(site))

NextDeclExceptionMsg ==
  \/ disable_abort_on_exception
  \/ enable_abort_on_exception
  \/ DeclExceptionMsgAssert
  \/ DeclExceptionMsgAssertThrow
  \/ NoreturnFill
  \/ NoreturnSwitch
  \/ Abort
  \/ Catch
  \/ What
  \/ Uncaught

SpecDeclExceptionMsg == InitDeclExceptionMsg /\ [][NextDeclExceptionMsg]_vars

---------------------------------------------------------------------------
(* Properties *)

\* C1: an AssertThrow check whose condition is false ends with an
\* exception in flight that is the object supplied at the check site, of
\* exactly its class, and control never continues past the check; a check
\* whose condition is true calls no dispatcher, throws nothing and control
\* continues past it.
C1_AssertThrowThrowsTheSuppliedKind ==
  /\ [](check.macro = "AssertThrow" =>
          IF check.cond
            THEN /\ check.call = "none"
                 /\ outcome = "continued"
                 /\ pc = "idle"
                 /\ thrown = NoExc
                 /\ exc = NoExc
            ELSE /\ check.call = "issue_error_noreturn"
                 /\ outcome \in {"pending", "thrown"}
                 /\ outcome = "pending" =>
                      pc \in {"issue_error_noreturn",
                              "issue_error_noreturn_switch"}
                 /\ pc = "thrown" =>
                      /\ thrown.kind = check.kind
                      /\ thrown.exc_name = check.exc_name)
  /\ [][(check.macro = "AssertThrow" /\ pc = "issue_error_noreturn_switch")
          => (pc' = "thrown" /\ thrown' = exc /\ thrown'.kind = check.kind)]_vars

C1_Witness ==
  /\ check.macro = "AssertThrow"
  /\ ~check.cond
  /\ pc = "thrown"
  /\ thrown.kind = ExcDimensionMismatch
  /\ check.kind = ExcDimensionMismatch

\* C2: in a debug build on the host, a failing Assert check calls
\* issue_error_noreturn with abort_or_throw_on_exception, and that call
\* ends in internals::abort when allow_abort_on_exception is true and with
\* the supplied exception object in flight when it is false: one of the
\* two, never both and never neither.
C2_AssertAbortsOrThrows ==
  /\ [](check.macro = "Assert" =>
          /\ (debug /\ check.on_host /\ ~check.cond) =>
               /\ check.call = "issue_error_noreturn"
               /\ check.handling = abort_or_throw_on_exception
          /\ check.call = "issue_error_noreturn" =>
               /\ outcome \in {"pending", "aborted", "thrown"}
               /\ outcome = "pending" =>
                    pc \in {"issue_error_noreturn",
                            "issue_error_noreturn_switch"}
               /\ outcome = "aborted" =>
                    (pc \in {"abort", "terminated"} /\ thrown = NoExc)
               /\ pc = "thrown" => thrown.kind = check.kind)
  /\ [][(check.macro = "Assert" /\ pc = "issue_error_noreturn_switch")
          => IF allow_abort_on_exception
               THEN pc' = "abort" /\ outcome' = "aborted" /\ thrown' = NoExc
               ELSE pc' = "thrown" /\ outcome' = "thrown" /\ thrown' = exc]_vars

C2_Witness ==
  /\ check.macro = "Assert"
  /\ debug
  /\ check.on_host
  /\ ~check.cond
  /\ ~allow_abort_on_exception
  /\ pc = "thrown"
  /\ thrown.kind = check.kind

\* C3: whatever toggles of the abort flag came before, a failing
\* AssertThrow check throws and never enters internals::abort.
C3_AssertThrowIgnoresTheAbortFlag ==
  /\ [](check.macro = "AssertThrow" /\ ~check.cond =>
          /\ check.handling = throw_on_exception
          /\ outcome # "aborted"
          /\ outcome # "continued"
          /\ pc # "abort")
  /\ [][(check.macro = "AssertThrow" /\ pc = "issue_error_noreturn_switch")
          => (pc' = "thrown" /\ outcome' = "thrown")]_vars

C3_Witness ==
  /\ check.macro = "AssertThrow"
  /\ ~check.cond
  /\ disable_called
  /\ last_toggle = "enable"
  /\ allow_abort_on_exception
  /\ pc = "thrown"

\* C4: the outcome of a failing Assert check is decided by the most recent
\* toggle alone: it throws if that was disable_abort_on_exception and ends
\* in internals::abort if that was enable_abort_on_exception.
C4_LastToggleWins ==
  [][(check.macro = "Assert" /\ pc = "issue_error_noreturn_switch") =>
       /\ last_toggle = "disable" =>
            (pc' = "thrown" /\ thrown' = exc /\ outcome' = "thrown")
       /\ last_toggle = "enable" =>
            (pc' = "abort" /\ thrown' = NoExc /\ outcome' = "aborted")]_vars

C4_Witness ==
  /\ check.macro = "Assert"
  /\ disable_called
  /\ last_toggle = "enable"
  /\ outcome = "aborted"
  /\ pc = "terminated"

\* C5: before any toggle was called the abort flag is set and a failing
\* Assert check ends in internals::abort instead of throwing, and after
\* enable_abort_on_exception the flag and the behaviour are those of the
\* initial state.
C5_AbortIsTheDefault ==
  /\ [](last_toggle \in {"none", "enable"} =>
          allow_abort_on_exception = allow_abort_on_exception_default)
  /\ [](last_toggle = "none" => allow_abort_on_exception)
  /\ [][(check.macro = "Assert" /\ pc = "issue_error_noreturn_switch"
           /\ last_toggle \in {"none", "enable"})
          => (pc' = "abort" /\ thrown' = NoExc /\ outcome' = "aborted")]_vars
  /\ [](check.macro = "Assert" /\ debug /\ check.on_host /\ ~check.cond
          /\ last_toggle \in {"none", "enable"} /\ pc # "idle"
          => outcome \in {"pending", "aborted"})

C5_Witness ==
  /\ check.macro = "Assert"
  /\ last_toggle = "none"
  /\ ~disable_called
  /\ outcome = "aborted"
  /\ pc = "terminated"

C7_AssertNothrowAbortsUnlessDisabled ==
  /\ [](check.macro = "AssertNothrow" /\ check.call = "issue_error_nothrow" =>
          /\ outcome \in {"pending", "aborted", "continued"}
          /\ outcome = "pending" =>
               pc \in {"issue_error_nothrow", "do_issue_error_nothrow"}
          /\ ~disable_called => outcome \in {"pending", "aborted"}
          /\ outcome = "aborted" => pc \in {"abort", "terminated"}
          /\ outcome = "continued" =>
               /\ pc = "idle"
               /\ disable_called
               /\ thrown = NoExc
               /\ deallog # <<>>
               /\ deallog[Len(deallog)] = exc)
  /\ [][(check.macro = "AssertNothrow" /\ pc = "do_issue_error_nothrow") =>
          /\ ~disable_called => (pc' = "abort" /\ outcome' = "aborted")
          /\ ~allow_abort_on_exception =>
               /\ pc' = "idle"
               /\ outcome' = "continued"
               /\ thrown' = NoExc
               /\ deallog' = Append(deallog, exc)]_vars
  /\ [][(check.macro = "Assert" /\ pc = "issue_error_noreturn_switch"
           /\ ~disable_called) =>
          (pc' = "abort" /\ outcome' = "aborted")]_vars

C7_Witness ==
  /\ check.macro = "AssertNothrow"
  /\ debug
  /\ ~check.cond
  /\ ~disable_called
  /\ outcome = "aborted"
  /\ pc = "terminated"

\* C8: whatever the abort flag and the class of the exception,
\* issue_error_nothrow leaves no exception in flight: a failing
\* AssertNothrow check never ends by throwing.
C8_NothrowNeverThrows ==
  /\ [](check.call = "issue_error_nothrow" =>
          /\ pc # "thrown"
          /\ thrown = NoExc
          /\ outcome # "thrown")
  /\ [][(pc = "issue_error_nothrow" \/ pc = "do_issue_error_nothrow") =>
          (pc' # "thrown" /\ thrown' = NoExc)]_vars

C8_Witness ==
  /\ check.call = "issue_error_nothrow"
  /\ check.kind = ExcMessage
  /\ ~allow_abort_on_exception
  /\ outcome = "continued"
  /\ deallog # <<>>
  /\ deallog[Len(deallog)].kind = ExcMessage
  /\ thrown = NoExc

\* C9: for every value of handling and of the abort flag, a call of
\* issue_error_noreturn ends in internals::abort, which ends the process,
\* or with an exception in flight; control never gets back to the code
\* after the check.
C9_NoreturnNeverReturns ==
  /\ [](check.call = "issue_error_noreturn" =>
          /\ outcome \in {"pending", "aborted", "thrown"}
          /\ outcome = "pending" =>
               pc \in {"issue_error_noreturn", "issue_error_noreturn_switch"}
          /\ outcome = "aborted" => pc \in {"abort", "terminated"})
  /\ [][pc = "issue_error_noreturn" =>
          pc' = "issue_error_noreturn_switch"]_vars
  /\ [][pc = "issue_error_noreturn_switch" =>
          /\ pc' \in {"abort", "thrown"}
          /\ pc' = "thrown" => thrown' # NoExc
          /\ pc' = "abort" => thrown' = NoExc]_vars
  /\ [][pc = "abort" => pc' = "terminated"]_vars

C9_Witness ==
  /\ check.macro = "issue_error_noreturn"
  /\ check.handling = malformed_handling
  /\ pc = "thrown"
  /\ outcome = "thrown"

\* C10: in each of the three handling modes set_fields has been called
\* exactly once on the exception object, with the values of the check
\* site, when the dispatcher branches on the handling mode or the abort
\* flag, and so when the object is handed to internals::abort, thrown or
\* printed to deallog; it has not been called before the dispatcher runs.
C10_FieldsSetOnceBeforeBranching ==
  /\ pc \in {"issue_error_noreturn", "issue_error_nothrow"} =>
       exc.set_fields_calls = 0
  /\ pc \in {"issue_error_noreturn_switch", "do_issue_error_nothrow",
             "abort"} =>
       /\ exc.set_fields_calls = 1
       /\ exc.file = check.site.file
       /\ exc.line = check.site.line
       /\ exc.function = check.site.function
       /\ exc.cond = check.site.cond
       /\ exc.exc_name = check.exc_name
  /\ (pc = "thrown" /\ check.handling \in ExceptionHandling) =>
       /\ thrown.set_fields_calls = 1
       /\ thrown = exc
  /\ \A i \in 1..Len(deallog) : deallog[i].set_fields_calls = 1

C10_Witness ==
  /\ check.macro = "AssertNothrow"
  /\ pc = "abort"
  /\ exc.set_fields_calls = 1
  /\ exc.file = "trace.cc"
  /\ exc.line = 45

\* C11: a call of issue_error_noreturn with a handling value that is
\* neither abort_or_throw_on_exception nor throw_on_exception ends with a
\* new ExcInternalError in flight, whatever the abort flag and the class of
\* e: it neither returns to the caller nor ends in internals::abort.
C11_MalformedHandlingThrowsExcInternalError ==
  /\ [](check.call = "issue_error_noreturn"
          /\ check.handling \notin ExceptionHandling =>
          /\ outcome \in {"pending", "thrown"}
          /\ outcome = "pending" =>
               pc \in {"issue_error_noreturn", "issue_error_noreturn_switch"}
          /\ pc # "abort"
          /\ pc = "thrown" => thrown.kind = ExcInternalError)
  /\ [][(pc = "issue_error_noreturn_switch"
           /\ check.handling \notin ExceptionHandling) =>
          /\ pc' = "thrown"
          /\ outcome' = "thrown"
          /\ thrown'.kind = ExcInternalError]_vars

C11_Witness ==
  /\ check.handling = malformed_handling
  /\ check.kind = ExcDimensionMismatch
  /\ allow_abort_on_exception
  /\ pc = "thrown"
  /\ thrown.kind = ExcInternalError


---------------------------------------------------------------------------
\* C12: every message that what() returns for the exception thrown by a
\* failing AssertThrow contains the file name, the line number (in decimal)
\* and the text of the condition of the check site, as they were written
\* there.
C12_WhatNamesFileLineAndCondition ==
  (check.macro = "AssertThrow" /\ caught # NoExc) =>
    \A k \in DOMAIN what_returned :
      /\ \E i \in DOMAIN what_returned[k] :
           what_returned[k][i] =
             [section |-> "file", text |-> check.site.file]
      /\ \E i \in DOMAIN what_returned[k] :
           what_returned[k][i] =
             [section |-> "line", text |-> ToString(check.site.line)]
      /\ \E i \in DOMAIN what_returned[k] :
           what_returned[k][i] =
             [section |-> "cond", text |-> check.site.cond]

\* A failing AssertThrow at trace.cc:45 was caught and asked for its message
C12_Witness ==
  /\ check.macro = "AssertThrow"
  /\ ~check.cond
  /\ check.site.line = 45
  /\ caught # NoExc
  /\ Len(what_returned) >= 1
  /\ \E i \in DOMAIN what_returned[1] :
       what_returned[1][i] = [section |-> "line", text |-> "45"]

---------------------------------------------------------------------------
\* C13: what() is idempotent: however often a handler asks the exception
\* it caught, after the stack was unwound, every call returns the same
\* non-empty text, whatever was changed between the calls.
C13_WhatIsIdempotent ==
  /\ [](\A j, k \in DOMAIN what_returned :
          /\ what_returned[j] # << >>
          /\ what_returned[j] = what_returned[k])
  /\ [][(what_returned # << >> /\ Len(what_returned') > Len(what_returned))
          => /\ Len(what_returned') = Len(what_returned) + 1
             /\ what_returned'[Len(what_returned')] = what_returned[1]]_vars

\* Two calls of what() on a caught exception with a recorded stack trace,
\* the second one made after stack traces were suppressed
C13_Witness ==
  /\ caught # NoExc
  /\ Len(what_returned) = 2
  /\ caught.n_stacktrace_frames > 0
  /\ ~show_stacktrace
  /\ \E i \in DOMAIN what_returned[2] :
       what_returned[2][i].section = "stacktrace"

---------------------------------------------------------------------------
\* C14: what() never throws, builds the message lazily and caches it: no
\* message exists before the first call, the first call generates it and
\* keeps it in what_str, no later call generates it again, and no call
\* starts an exception or leaves the handler.
C14_WhatGeneratesAtMostOnce ==
  /\ [](caught # NoExc =>
          /\ caught.generate_calls <= 1
          /\ (what_returned = << >> =>
                caught.generate_calls = 0 /\ caught.what_str = << >>)
          /\ (what_returned # << >> =>
                caught.generate_calls = 1
                /\ caught.what_str = what_returned[1]))
  /\ [](exc # NoExc => exc.generate_calls <= 1)
  /\ [][Len(what_returned') > Len(what_returned)
          => /\ pc' = "idle"
             /\ thrown' = NoExc
             /\ outcome' = outcome]_vars

\* The second call of what() on a caught exception: the message was
\* generated once
C14_Witness ==
  /\ caught # NoExc
  /\ Len(what_returned) = 2
  /\ caught.generate_calls = 1
  /\ caught.what_str = what_returned[2]

---------------------------------------------------------------------------
\* C15: a report has a fixed layout: the general block (file, line,
\* function, violated condition, name of the exception), then the
\* explanation of the class, then the stack trace if there is one, then
\* the additional output if one is set.  This holds for the report of a
\* termination and for every message what() returns.
C15_ReportLayoutIsFixed ==
  LET general == << "file", "line", "function", "cond", "exc_name" >>
      sections(m) == [i \in DOMAIN m |-> m[i].section]
      trace(present) == IF present THEN << "stacktrace" >> ELSE << >>
      additional(present) == IF present THEN << "additional" >> ELSE << >>
  IN  /\ (pc = "terminated" /\ cerr # << >>) =>
            sections(cerr) =
              general \o << "info" >>
                \o trace(exc.n_stacktrace_frames > 0 /\ show_stacktrace)
                \o additional(additional_assert_output # "")
      /\ \A k \in DOMAIN what_returned :
            \E present \in BOOLEAN :
              sections(what_returned[k]) =
                general \o << "info" >> \o trace(present)

\* A termination report with all four parts
C15_Witness ==
  /\ pc = "terminated"
  /\ Len(cerr) = 8
  /\ cerr[6].section = "info"
  /\ cerr[7].section = "stacktrace"
  /\ cerr[8] = [section |-> "additional", text |-> additional_assert_output]

---------------------------------------------------------------------------
\* C16: the message of ExcIndexRange and of ExcIndexRangeType<T> states
\* the index and the half-open range [lower,upper); it contains the note
\* that the range is in fact empty when lower = upper, and does not
\* contain it when lower < upper.
C16_EmptyRangeNoteIffRangeIsEmpty ==
  arith.phase = "printed" =>
    /\ Len(arith.message) >= 8
    /\ arith.message[2] = "Index "
    /\ arith.message[3] = ToString(arith.exc.arg1)
    /\ arith.message[4] = " is not in the half-open range ["
    /\ arith.message[5] = ToString(arith.exc.arg2)
    /\ arith.message[6] = ","
    /\ arith.message[7] = ToString(arith.exc.arg3)
    /\ arith.message[8] = ")."
    /\ (arith.exc.arg2 = arith.exc.arg3 =>
          \E i \in DOMAIN arith.message : arith.message[i] = empty_range_note)
    /\ (arith.exc.arg2 < arith.exc.arg3 =>
          \A i \in DOMAIN arith.message : arith.message[i] # empty_range_note)

\* The message of an ExcIndexRange for index 2 and the empty range [1,1)
C16_Witness ==
  /\ arith.phase = "printed"
  /\ arith.exc.type = "std::size_t"
  /\ arith.exc.arg1 = 2
  /\ arith.exc.arg2 = 1
  /\ arith.exc.arg3 = 1
  /\ Len(arith.message) = 9
  /\ arith.message[9] = empty_range_note

---------------------------------------------------------------------------
\* C20: in a debug build AssertIndexRange(index, range) passes exactly
\* when 0 <= index < range, and otherwise hands the dispatcher an
\* exception that carries (index, 0, range), for all values of int,
\* unsigned int and std::size_t, the two arguments of the same or of
\* different types.
C20_AssertIndexRangeTestsZeroToRange ==
  (arith.phase = "checked" /\ debug) =>
    /\ arith.evaluated
    /\ arith.call = "none" <=> (0 <= arith.index /\ arith.index < arith.range)
    /\ arith.call # "none" =>
         /\ arith.call = "issue_error_noreturn"
         /\ arith.exc.arg1 = arith.index
         /\ arith.exc.arg2 = 0
         /\ arith.exc.arg3 = arith.range

---------------------------------------------------------------------------
\* C17: set_additional_assert_output replaces what was set before: the
\* string stored is always the text of the most recent call, also after
\* the caller changed its buffer, and a termination report contains that
\* text once and no other additional output.
C17_AdditionalOutputIsTheMostRecent ==
  /\ [](IF last_output_set = "none"
          THEN additional_assert_output = ""
          ELSE additional_assert_output = last_output_set)
  /\ []((pc = "terminated" /\ cerr # << >> /\ last_output_set # "none") =>
          /\ \E i \in DOMAIN cerr :
               cerr[i] = [section |-> "additional", text |-> last_output_set]
          /\ \A i, j \in DOMAIN cerr :
               (cerr[i].section = "additional"
                /\ cerr[j].section = "additional") => i = j
          /\ \A i \in DOMAIN cerr :
               cerr[i].text \in Texts => cerr[i].text = last_output_set)
  /\ [][buffer' # buffer =>
          additional_assert_output' = additional_assert_output]_vars

\* A termination report with the text of the most recent call, which is
\* not the text in the caller's buffer any more
C17_Witness ==
  /\ pc = "terminated"
  /\ last_output_set = "host-b"
  /\ buffer = "host-a"
  /\ \E i \in DOMAIN cerr :
       cerr[i] = [section |-> "additional", text |-> "host-b"]

---------------------------------------------------------------------------
\* C18: the suppression of stack traces is never undone, and once
\* suppress_stacktrace_in_exceptions was called no report generated for a
\* failure contains a stack trace: neither the report of a termination
\* nor the message of what(), the first time it is asked for or later.
C18_NoStackTraceOnceSuppressed ==
  /\ [][~show_stacktrace => ~show_stacktrace']_vars
  /\ [][(~show_stacktrace /\ cerr' # cerr) =>
          \A i \in DOMAIN cerr' : cerr'[i].section # "stacktrace"]_vars
  /\ [][(~show_stacktrace /\ Len(what_returned') > Len(what_returned)
           /\ caught.what_str = << >>) =>
          \A k \in DOMAIN what_returned' : \A i \in DOMAIN what_returned'[k] :
             what_returned'[k][i].section # "stacktrace"]_vars
  /\ [][(what_returned # << >> /\ Len(what_returned') > Len(what_returned)
           /\ \A i \in DOMAIN what_returned[1] :
                what_returned[1][i].section # "stacktrace") =>
          \A k \in DOMAIN what_returned' : \A i \in DOMAIN what_returned'[k] :
             what_returned'[k][i].section # "stacktrace"]_vars

\* A termination after the suppression, in a disabled-toggle history with
\* additional output, of a failure for which a stack trace was recorded
C18_Witness ==
  /\ pc = "terminated"
  /\ ~show_stacktrace
  /\ cerr # << >>
  /\ exc.n_stacktrace_frames > 0
  /\ \A i \in DOMAIN cerr : cerr[i].section # "stacktrace"
  /\ additional_assert_output # ""
  /\ last_toggle # "none"

---------------------------------------------------------------------------
\* C19: Assert and AssertNothrow are active in debug builds only: without
\* DEBUG a check, also one whose condition is false, does not evaluate
\* the condition, constructs no exception, enters no dispatcher, and the
\* execution continues; with DEBUG the condition is evaluated and a false
\* one enters the dispatcher.  AssertThrow evaluates its condition and
\* dispatches a false one in both builds.
C19_AssertAndAssertNothrowAreDebugOnly ==
  /\ ((check.macro = "Assert" \/ check.macro = "AssertNothrow") /\ ~debug) =>
        /\ ~check.evaluated
        /\ check.call = "none"
        /\ exc = NoExc
        /\ thrown = NoExc
        /\ pc = "idle"
        /\ outcome = "continued"
  /\ ((check.macro = "Assert" \/ check.macro = "AssertNothrow") /\ debug) =>
        /\ check.evaluated
        /\ (~check.cond => check.call # "none")
  /\ check.macro = "AssertThrow" =>
        /\ check.evaluated
        /\ (~check.cond =>
              /\ check.call = "issue_error_noreturn"
              /\ check.handling = throw_on_exception)

\* Without DEBUG an Assert with a false condition was passed and, after
\* it, an AssertNothrow with a false condition: the execution continues
C19_Witness ==
  /\ ~debug
  /\ n_checks = 2
  /\ check.macro = "AssertNothrow"
  /\ ~check.cond
  /\ ~check.evaluated
  /\ outcome = "continued"
  /\ deallog = << >>

---------------------------------------------------------------------------
---------------------------------------------------------------------------
\* C22 as stated: in the program of trace.cc the check does not dispatch
\* and the program goes on when the trace of the matrix equals the
\* accumulated sum, and when the two are unequal the report of the failure
\* holds the two differing values.
C22_TraceFailureEmbedsTheTwoValues ==
  n_checks = 1 =>
    /\ FullMatrix_trace(arith.m) = arith.tr => (pc = "idle" /\ outcome = "continued")
    /\ (FullMatrix_trace(arith.m) # arith.tr /\ pc = "terminated") =>
         /\ \E i \in DOMAIN cerr : cerr[i].text = ToString(FullMatrix_trace(arith.m))
         /\ \E i \in DOMAIN cerr : cerr[i].text = ToString(arith.tr)

\* C22, amended: after the loops the trace of the matrix equals the
\* accumulated sum; when the two are equal the check does not dispatch
\* and the program goes on; so it does in a build without
\* DEBUG, whatever the values.  In a debug build, when the two are unequal
\* the check dispatches an ExcInternalError, and the report of the
\* failure holds the file, the line, the text of the condition
\* "m.trace() == tr" as written and the default text of ExcInternalError;
\* no part of it holds one of the two values.
C22_TraceFailureNamesTheCondition ==
  /\ arith.phase = "filled" => FullMatrix_trace(arith.m) = arith.tr
  /\ n_checks = 1 =>
    /\ (FullMatrix_trace(arith.m) = arith.tr \/ ~debug) =>
         /\ pc = "idle"
         /\ outcome = "continued"
         /\ exc = NoExc
         /\ cerr = << >>
    /\ (FullMatrix_trace(arith.m) # arith.tr /\ debug) =>
         /\ check.call = "issue_error_noreturn"
         /\ exc.kind = ExcInternalError
         /\ pc # "idle"
         /\ outcome # "continued"
    /\ pc = "terminated" =>
         /\ \E i \in DOMAIN cerr :
              cerr[i] = [section |-> "file", text |-> "trace.cc"]
         /\ \E i \in DOMAIN cerr :
              cerr[i] = [section |-> "line", text |-> "45"]
         /\ \E i \in DOMAIN cerr :
              cerr[i] = [section |-> "cond", text |-> "m.trace() == tr"]
         /\ \E i \in DOMAIN cerr :
              cerr[i] = [section |-> "info",
                         text |-> ExcInternalError_defaulttext]
         /\ \A i \in DOMAIN cerr :
              /\ cerr[i].text # ToString(FullMatrix_trace(arith.m))
              /\ cerr[i].text # ToString(arith.tr)

\* The report of the failure for a corrupted matrix: trace 381, sum 380
C22_Witness ==
  /\ pc = "terminated"
  /\ arith.phase = "logged"
  /\ arith.tr = 380
  /\ FullMatrix_trace(arith.m) = 381
  /\ Len(cerr) >= 6
  /\ cerr[4] = [section |-> "cond", text |-> "m.trace() == tr"]

---------------------------------------------------------------------------
\* C23: once a failing check has dispatched into internals::abort, the
\* termination cannot be cancelled: whatever toggles another thread
\* calls meanwhile, the thread leaves abort only into the terminated
\* state, this state is eventually reached, and it is never left.
C23_AbortAlwaysTerminates ==
  /\ (pc = "abort") ~> (pc = "terminated")
  /\ [](pc = "terminated" => [](pc = "terminated"))
  /\ [][pc = "abort" => (pc' = "abort" \/ pc' = "terminated")]_vars
  /\ [][pc = "abort" => thrown' = NoExc /\ outcome' = "aborted"]_vars

\* The process was terminated by abort although the flag was cleared
\* after the dispatch
C23_Witness ==
  /\ pc = "terminated"
  /\ outcome = "aborted"
  /\ cerr # << >>
  /\ ~allow_abort_on_exception
  /\ last_toggle = "disable"

---------------------------------------------------------------------------
\* C27: while another thread calls the toggles, a failing Assert reads
\* the flag once, in the switch of issue_error_noreturn: it goes to abort
\* when the flag is set at that moment and throws its exception when it
\* is cleared, and a toggle after the read changes nothing.  The check
\* ends in exactly one of the two ways: it never returns normally, an
\* aborted check has thrown nothing, a thrown one printed no report of a
\* termination.
C27_RaceOnTheAbortFlagIsBenign ==
  /\ [][(pc = "issue_error_noreturn_switch" /\ pc' # pc
          /\ check.handling = abort_or_throw_on_exception) =>
          \/ /\ allow_abort_on_exception
             /\ pc' = "abort"
             /\ thrown' = NoExc
          \/ /\ ~allow_abort_on_exception
             /\ pc' = "thrown"
             /\ thrown' = exc]_vars
  /\ [][pc = "abort" => (pc' = "abort" \/ pc' = "terminated")]_vars
  /\ [][(pc = "thrown" /\ pc' # pc) =>
          /\ pc' = "idle" \/ pc' = "terminated"
          /\ cerr' = << >>
          /\ outcome' = "thrown"]_vars
  /\ []((check.macro = "Assert" /\ check.call = "issue_error_noreturn") =>
          /\ outcome = "pending" \/ outcome = "aborted" \/ outcome = "thrown"
          /\ outcome = "pending" =>
               (pc = "issue_error_noreturn"
                \/ pc = "issue_error_noreturn_switch")
          /\ outcome = "aborted" =>
               (thrown = NoExc /\ caught = NoExc
                /\ (pc = "abort" \/ pc = "terminated"))
          /\ outcome = "thrown" => cerr = << >>)

\* A failing Assert is in internals::abort while the flag is cleared: the
\* other thread called disable_abort_on_exception after the read
C27_Witness ==
  /\ check.macro = "Assert"
  /\ pc = "abort"
  /\ outcome = "aborted"
  /\ ~allow_abort_on_exception
  /\ last_toggle = "disable"

---------------------------------------------------------------------------
\* C24: AssertThrowMPI(error_code) throws an ExcMPI that carries the code
\* exactly when the code is not MPI_SUCCESS, whatever the abort flag is,
\* and never goes to abort; AssertThrowExodusII(error_code) does the same
\* with an ExcExodusII exactly when the code is not 0; in a build without
\* MPI AssertThrowMPI does nothing for any code.
C24_ErrorCodeChecksThrowIffNotSuccess ==
  /\ []((check.macro = "AssertThrowMPI"
         \/ check.macro = "AssertThrowExodusII") =>
        LET fails ==
              \/ /\ check.macro = "AssertThrowMPI"
                 /\ arith.with_mpi
                 /\ arith.error_code # MPI_SUCCESS
              \/ /\ check.macro = "AssertThrowExodusII"
                 /\ arith.error_code # 0
            class ==
              IF check.macro = "AssertThrowMPI" THEN ExcMPI ELSE ExcExodusII
        IN  /\ pc # "abort"
            /\ cerr = << >>
            /\ outcome # "aborted"
            /\ fails =>
                 /\ check.call = "issue_error_noreturn"
                 /\ check.handling = throw_on_exception
                 /\ outcome = "pending" \/ outcome = "thrown"
                 /\ exc.kind = class
                 /\ exc.error_code = arith.error_code
                 /\ pc = "thrown" =>
                      /\ thrown.kind = class
                      /\ thrown.error_code = arith.error_code
            /\ ~fails =>
                 /\ check.call = "none"
                 /\ outcome = "continued"
                 /\ exc = NoExc
                 /\ thrown = NoExc
                 /\ caught = NoExc
            /\ (check.macro = "AssertThrowMPI" /\ ~arith.with_mpi) =>
                 ~check.evaluated)
  /\ [][(pc = "issue_error_noreturn_switch" /\ pc' # pc
          /\ (check.macro = "AssertThrowMPI"
              \/ check.macro = "AssertThrowExodusII")) =>
          /\ pc' = "thrown"
          /\ thrown' = exc
          /\ outcome' = "thrown"]_vars

\* AssertThrowMPI(3) has thrown its ExcMPI while the abort flag is set
C24_Witness ==
  /\ check.macro = "AssertThrowMPI"
  /\ allow_abort_on_exception
  /\ arith.error_code = 3
  /\ pc = "thrown"
  /\ thrown.kind = ExcMPI
  /\ thrown.error_code = 3

---------------------------------------------------------------------------
\* C25: the abort flag, the additional output and the stack trace flag are
\* changed only by the control operations: a step that runs a check (of
\* any macro, passing or failing), a step of a dispatcher, a step of
\* internals::abort, the flight of an exception and a call of what()
\* leave all three as they were.
C25_PolicyStateChangesOnlyInControlOperations ==
  /\ [][(\/ n_checks' # n_checks
          \/ pc # "idle"
          \/ pc' # "idle"
          \/ check' # check
          \/ exc' # exc
          \/ thrown' # thrown
          \/ caught' # caught
          \/ what_returned' # what_returned
          \/ cerr' # cerr
          \/ deallog' # deallog
          \/ outcome' # outcome) =>
          /\ allow_abort_on_exception' = allow_abort_on_exception
          /\ additional_assert_output' = additional_assert_output
          /\ show_stacktrace' = show_stacktrace]_vars
  /\ [][allow_abort_on_exception' # allow_abort_on_exception =>
          /\ last_toggle' = "disable" \/ last_toggle' = "enable"
          /\ allow_abort_on_exception' = (last_toggle' = "enable")
          /\ additional_assert_output' = additional_assert_output
          /\ show_stacktrace' = show_stacktrace]_vars
  /\ [][additional_assert_output' # additional_assert_output =>
          /\ additional_assert_output' = buffer
          /\ last_output_set' = buffer
          /\ allow_abort_on_exception' = allow_abort_on_exception
          /\ show_stacktrace' = show_stacktrace]_vars
  /\ [][show_stacktrace' # show_stacktrace =>
          /\ ~show_stacktrace'
          /\ allow_abort_on_exception' = allow_abort_on_exception
          /\ additional_assert_output' = additional_assert_output]_vars

\* A failed check was thrown and caught and its message was rendered while
\* all three parts of the policy differ from their initial values
C25_Witness ==
  /\ outcome = "thrown"
  /\ pc = "idle"
  /\ what_returned # << >>
  /\ ~allow_abort_on_exception
  /\ additional_assert_output = "host-b"
  /\ ~show_stacktrace
  /\ last_toggle = "disable"

---------------------------------------------------------------------------
\* C26: DEAL_II_NOT_IMPLEMENTED() and DEAL_II_ASSERT_UNREACHABLE() fail
\* without a condition, with and without DEBUG: they enter
\* issue_error_noreturn with abort_or_throw_on_exception, a null text of
\* the condition and a null name of the exception; the dispatcher goes to
\* abort when the abort flag is set and throws the ExcNotImplemented,
\* respectively the ExcMessage, when it is cleared, and never returns to
\* the place; the message is rendered without the two absent parts, with
\* the explanation of the class.
C26_UnconditionalFailuresAbortOrThrow ==
  /\ []((check.macro = "DEAL_II_NOT_IMPLEMENTED"
         \/ check.macro = "DEAL_II_ASSERT_UNREACHABLE") =>
        LET class == IF check.macro = "DEAL_II_NOT_IMPLEMENTED"
                       THEN ExcNotImplemented ELSE ExcMessage
            text == IF check.macro = "DEAL_II_NOT_IMPLEMENTED"
                      THEN ExcNotImplemented_defaulttext
                      ELSE DEAL_II_ASSERT_UNREACHABLE_message
            rendered(m) ==
              /\ Len(m) >= 4
              /\ m[1].section = "file" /\ m[1].text = check.site.file
              /\ m[2].section = "line"
              /\ m[3].section = "function"
              /\ m[4] = [section |-> "info", text |-> text]
              /\ \A k \in 1..Len(m) :
                   m[k].section # "cond" /\ m[k].section # "exc_name"
        IN  /\ check.call = "issue_error_noreturn"
            /\ check.handling = abort_or_throw_on_exception
            /\ check.site.cond = nullptr
            /\ check.exc_name = nullptr
            /\ outcome = "pending" \/ outcome = "aborted"
                 \/ outcome = "thrown"
            /\ exc.kind = class
            /\ pc # "issue_error_noreturn" =>
                 exc.cond = nullptr /\ exc.exc_name = nullptr
            /\ pc = "thrown" => thrown.kind = class
            /\ caught # NoExc => caught.kind = class
            /\ outcome = "aborted" =>
                 pc = "abort" \/ (pc = "terminated" /\ rendered(cerr))
            /\ outcome = "thrown" => cerr = << >>
            /\ \A k \in 1..Len(what_returned) : rendered(what_returned[k]))
  /\ [][(pc = "issue_error_noreturn_switch" /\ pc' # pc
          /\ (check.macro = "DEAL_II_NOT_IMPLEMENTED"
              \/ check.macro = "DEAL_II_ASSERT_UNREACHABLE")) =>
          IF allow_abort_on_exception
            THEN pc' = "abort" /\ outcome' = "aborted" /\ thrown' = NoExc
            ELSE pc' = "thrown" /\ outcome' = "thrown" /\ thrown' = exc]_vars

\* In a build without DEBUG, DEAL_II_NOT_IMPLEMENTED() was reached with
\* the abort flag cleared; the ExcNotImplemented was thrown and caught and
\* its message was rendered
C26_Witness ==
  /\ ~debug
  /\ check.macro = "DEAL_II_NOT_IMPLEMENTED"
  /\ ~allow_abort_on_exception
  /\ caught # NoExc
  /\ caught.kind = ExcNotImplemented
  /\ caught.cond = nullptr
  /\ what_returned # << >>

---------------------------------------------------------------------------
\* C28: an object of a class declared by DeclExceptionMsg prints as its
\* explanation the default text of the declaration when it was
\* constructed without an argument and the message it was constructed
\* with, in place of the default text, when one was given; the text it
\* stores is the same from its construction on, through set_fields, the
\* throw, the catch, what() and internals::abort.
C28_DeclExceptionMsgRendersDefaultOrGivenText ==
  /\ [](LET text == IF arith.given THEN arith.msg
                                   ELSE defaulttext(arith.kind)
            explained(m) ==
              /\ \E k \in 1..Len(m) :
                   m[k] = [section |-> "info", text |-> text]
              /\ \A k \in 1..Len(m) :
                   m[k].section = "info" => m[k].text = text
        IN  /\ exc # NoExc => exc.arg = text
            /\ thrown # NoExc => thrown.arg = text
            /\ caught # NoExc => caught.arg = text
            /\ exc # NoExc => print_info(exc) =
                                << [section |-> "info", text |-> text] >>
            /\ cerr # << >> => explained(cerr)
            /\ \A k \in 1..Len(what_returned) : explained(what_returned[k])
            /\ pc = "terminated" /\ outcome = "aborted" => cerr # << >>)
  /\ [][(exc # NoExc /\ exc' # NoExc) => exc'.arg = exc.arg]_vars
  /\ [][(caught # NoExc /\ caught' # NoExc) => caught'.arg = caught.arg]_vars

\* ExcNotImplemented("message-b") was thrown and caught and what() was
\* called twice
C28_Witness ==
  /\ arith.phase = "DeclExceptionMsg"
  /\ arith.kind = ExcNotImplemented
  /\ arith.given
  /\ arith.msg = "message-b"
  /\ caught # NoExc
  /\ Len(what_returned) = 2
  /\ what_returned[2][6] = [section |-> "info", text |-> "message-b"]

---------------------------------------------------------------------------
\* C29: AssertThrowIntegerConversion(index1, index2) checks the condition
\* AssertIntegerConversion(index1, index2) checks in debug mode and
\* constructs the same ExcInvalidIntegerConversion of the same two
\* values; the two differ in the handling only: the former dispatches with
\* throw_on_exception in every build, the latter with
\* abort_or_throw_on_exception in debug mode and is not compiled
\* otherwise.
C29_ThrowingIntegerConversionCheckRefinesTheAssert ==
  (/\ arith.phase = "checked" \/ arith.phase = "printed"
   /\ \/ arith.macro = "AssertIntegerConversion"
      \/ arith.macro = "AssertThrowIntegerConversion") =>
    LET a(dbg) == AssertIntegerConversion(dbg, arith.index_type, arith.index,
                                          arith.range_type, arith.range)
        t == AssertThrowIntegerConversion(arith.index_type, arith.index,
                                          arith.range_type, arith.range)
        e == [kind |-> ExcInvalidIntegerConversion,
              arg1 |-> static_cast("long long", arith.index),
              arg2 |-> static_cast("long long", arith.range)]
        holds == static_cast(common_type(arith.index_type, arith.range_type),
                             arith.index)
                 = static_cast(common_type(arith.index_type,
                                           arith.range_type),
                               arith.range)
    IN  /\ (t.call = "none") = holds
        /\ (a(TRUE).call = "none") = holds
        /\ t.evaluated /\ a(TRUE).evaluated
        /\ a(TRUE).exc = t.exc
        /\ ~holds =>
             /\ t.exc = e
             /\ t.call = "issue_error_noreturn"
             /\ a(TRUE).call = "issue_error_noreturn"
             /\ t.handling = throw_on_exception
             /\ a(TRUE).handling = abort_or_throw_on_exception
        /\ a(FALSE) = [call |-> "none", handling |-> "none",
                       evaluated |-> FALSE, exc |-> NoExc]
        /\ arith.phase = "checked" =>
             LET x == IF arith.macro = "AssertThrowIntegerConversion"
                        THEN t ELSE a(debug)
             IN  /\ arith.call = x.call
                 /\ arith.handling = x.handling
                 /\ arith.evaluated = x.evaluated
                 /\ arith.exc = x.exc
        /\ arith.phase = "printed" =>
             /\ arith.exc = e
             /\ arith.message = ExcInvalidIntegerConversion_print_info(e)

\* In a build without DEBUG, AssertThrowIntegerConversion(3, 2) has
\* dispatched its exception of 3 and 2 for throwing
C29_Witness ==
  /\ ~debug
  /\ arith.phase = "checked"
  /\ arith.macro = "AssertThrowIntegerConversion"
  /\ arith.index = 3
  /\ arith.range = 2
  /\ arith.handling = throw_on_exception
  /\ arith.exc.kind = ExcInvalidIntegerConversion
  /\ arith.exc.arg1 = 3
  /\ arith.exc.arg2 = 2

---------------------------------------------------------------------------
\* C30: the abort flag is either set or cleared; a second call of
\* disable_abort_on_exception() (of enable_abort_on_exception()) right
\* after the first leaves the settings the first call left, and neither
\* call changes the additional output or the stack trace flag.
C30_TogglesAreIdempotentAndTouchOnlyTheFlag ==
  /\ [](/\ allow_abort_on_exception \in BOOLEAN
        /\ disabled(disabled(PolicyState)) = disabled(PolicyState)
        /\ enabled(enabled(PolicyState)) = enabled(PolicyState)
        /\ ~disabled(PolicyState).allow_abort_on_exception
        /\ enabled(PolicyState).allow_abort_on_exception
        /\ disabled(PolicyState).additional_assert_output
             = additional_assert_output
        /\ disabled(PolicyState).show_stacktrace = show_stacktrace
        /\ enabled(PolicyState).additional_assert_output
             = additional_assert_output
        /\ enabled(PolicyState).show_stacktrace = show_stacktrace
        /\ last_toggle = "disable" => PolicyState = disabled(PolicyState)
        /\ last_toggle = "enable" => PolicyState = enabled(PolicyState))
  /\ [][last_toggle' # last_toggle =>
          /\ \/ /\ last_toggle' = "disable"
                /\ PolicyState' = disabled(PolicyState)
             \/ /\ last_toggle' = "enable"
                /\ PolicyState' = enabled(PolicyState)
          /\ additional_assert_output' = additional_assert_output
          /\ show_stacktrace' = show_stacktrace
          /\ UNCHANGED <<pc, check, exc, thrown, caught, what_returned,
                         cerr, deallog, outcome, n_checks, buffer,
                         last_output_set>>]_vars

\* disable_abort_on_exception() was the last toggle called, in a process
\* whose additional output is set and whose stack traces are suppressed
C30_Witness ==
  /\ last_toggle = "disable"
  /\ disable_called
  /\ ~allow_abort_on_exception
  /\ additional_assert_output = "host-b"
  /\ ~show_stacktrace
  /\ pc = "idle"
  /\ n_checks = 0

====
